---------------------------- MODULE Spec2Model ----------------------------
(***************************************************************************)
(* State-machine model of the stellarguard contracts:                      *)
(*   contracts/treasury/src/lib.rs    (TreasuryContract)                   *)
(*   contracts/governance/src/lib.rs  (GovernanceContract)                 *)
(*   contracts/access-control/src/lib.rs (AccessControlContract)           *)
(*                                                                         *)
(* Each contract is an independent state machine: no entry point of one    *)
(* calls another.  A behaviour follows ONE deployed contract instance,     *)
(* chosen by `contract` in Init.                                           *)
(*                                                                         *)
(* An entry point is an operator from (storage, arguments) to a record     *)
(* [result, ret, store]: the Result the Rust function returns and the      *)
(* storage as written at the moment of return.  The host commits the       *)
(* writes of an invocation that returns Ok and discards those of one that  *)
(* returns Err or traps (require_auth without a signature, arithmetic      *)
(* overflow panic): Commit.  A failed invocation is therefore a stuttering *)
(* step, and what it returns is a function of the state and the arguments: *)
(* a statement "the call fails with E" is an invariant over all arguments. *)
(*                                                                         *)
(* Integer widths are scaled: i128 is modelled with I128Bits bits and u32  *)
(* with U32Bits bits, so that the overflow the Rust code can run into is   *)
(* reachable.  An unchecked `+` or `*` of the source that overflows follows*)
(* the build: with overflow checks it panics (the invocation traps),       *)
(* without it wraps; the argument `wrap` of the operators that compute     *)
(* one is that choice.  checked_add is modelled as written.                *)
(***************************************************************************)
EXTENDS Integers, Sequences, FiniteSets, TLC

VARIABLES
    contract,         \* which contract this behaviour follows
    treasury,         \* TreasuryContract storage (instance + persistent)
    deposited,        \* history: mathematical sum of the amounts of successful deposits
    governance,       \* GovernanceContract storage (instance + persistent)
    ledger,           \* env.ledger().sequence(), the host's ledger clock
    access            \* AccessControlContract storage (instance + persistent)

vars == <<contract, treasury, deposited, governance, ledger, access>>

----------------------------------------------------------------------------
(* Bounds and input domains *)

\* Length bound of the signer list (initialize argument and add_signer guard).
MaxSigners == 2

\* Number of withdrawal proposals created in a behaviour of SpecTR.
MaxTx == 2

\* Number of withdrawal proposals created in a behaviour of SpecTRBalance.
MaxTxBalance == 2

\* Width of the scaled i128.
I128Bits == 3

\* Successful deposits stop once their mathematical sum exceeds I128Max by this much.
MaxOverDeposit == 2

\* Length bound of the member list (initialize argument and AddMember guard).
MaxMembers == 2

\* Number of proposals created in a behaviour.
MaxProposals == 1

\* Proposals of a behaviour of SpecGOVReceipts.
MaxVotedProposals == 2

\* The ledger sequence runs from 0 to MaxLedger.
MaxLedger == 2

\* No RoleCount entry is driven above this by a step of the model.
MaxRoleCount == 2

\* Widths of the scaled u32 and u64.
U32Bits == 9

U64Bits == 3

U32Max == 2 ^ U32Bits - 1

U64Max == 2 ^ U64Bits - 1

WrapU32(x) == x % (2 ^ U32Bits)

Addr == {"a1", "a2", "a3"}

\* The addresses the member list of initialize is drawn from in SpecGOV.
Founders == {"a1", "a2"}

\* Address::zero()
ZeroAddress == "zero"

\* <<title, description, amount>> of a create_proposal call: one valid triple and
\* one per validation it can fail.
ProposalTexts == {<<"t", "d", 0>>, <<"", "d", 0>>, <<"t", "", 0>>, <<"t", "d", -1>>}

NoAddr == "none"

I128Max == 2 ^ (I128Bits - 1) - 1

I128Min == 0 - 2 ^ (I128Bits - 1)

\* Two's complement wrap of an i128 result.
WrapI128(x) == ((x + 2 ^ (I128Bits - 1)) % (2 ^ I128Bits)) - 2 ^ (I128Bits - 1)

AddrSeqs(n) == UNION {[1..k -> Addr] : k \in 0..n}

Recipient == "a3"

Memo == "rent"

Timestamp == 0

----------------------------------------------------------------------------
(* Results *)

Ok(s, v) == [result |-> "Ok", ret |-> v, store |-> s]

Err(s, e) == [result |-> e, ret |-> "none", store |-> s]

\* require_auth without the address's signature, or a panic: the host traps.
Trap(s) == [result |-> "Trap", ret |-> "none", store |-> s]

Contains(v, a) == \E i \in 1..Len(v) : v[i] = a

\* The loop `for i in 0..v.len() { if v[i] != a { new.push_back(v[i]) } }`.
RECURSIVE Without(_, _)
Without(v, a) ==
    IF v = <<>> THEN <<>>
    ELSE IF Head(v) = a THEN Without(Tail(v), a)
    ELSE <<Head(v)>> \o Without(Tail(v), a)

----------------------------------------------------------------------------
(* TreasuryContract *)

TreasuryEmpty ==
    [initialized |-> FALSE, admin |-> NoAddr, threshold |-> 0, signers |-> <<>>,
     balance |-> 0, tx_counter |-> 0, transactions |-> <<>>]

\* Mutant: require_initialized passes on a contract that is not initialized.
Treasury_require_initialized_skipped(s) == "Ok"

Treasury_require_initialized(s) ==
    IF ~s.initialized THEN "NotInitialized" ELSE "Ok"

Treasury_require_admin(s, caller) ==
    IF caller # s.admin THEN "Unauthorized" ELSE "Ok"

Treasury_require_signer(s, caller) ==
    IF Contains(s.signers, caller) THEN "Ok" ELSE "NotASigner"

Treasury_initialize(s, admin, threshold, signers, auth) ==
    IF s.initialized THEN Err(s, "AlreadyInitialized")
    ELSE IF threshold = 0 \/ threshold > Len(signers) THEN Err(s, "InvalidThreshold")
    ELSE IF ~auth THEN Trap(s)
    ELSE Ok([s EXCEPT !.initialized = TRUE, !.admin = admin, !.threshold = threshold,
                      !.signers = signers, !.balance = 0, !.tx_counter = 0], "none")

\* `current_balance + amount` on i128.
Treasury_balance_add(current_balance, amount, wrap) ==
    LET sum == current_balance + amount IN
    IF sum > I128Max \/ sum < I128Min
    THEN [panic |-> ~wrap, value |-> WrapI128(sum)]
    ELSE [panic |-> FALSE, value |-> sum]

Treasury_deposit(s, from, amount, auth, wrap) ==
    IF Treasury_require_initialized(s) # "Ok" THEN Err(s, "NotInitialized")
    ELSE IF amount <= 0 THEN Err(s, "InvalidAmount")
    ELSE IF ~auth THEN Trap(s)
    ELSE LET new_balance == Treasury_balance_add(s.balance, amount, wrap) IN
         IF new_balance.panic THEN Trap(s)
         ELSE Ok([s EXCEPT !.balance = new_balance.value], "none")

\* Mutant: propose_withdrawal takes the amount out of the balance.
Treasury_propose_withdrawal_reserving(s, proposer, to, amount, memo, auth) ==
    IF Treasury_require_initialized(s) # "Ok" THEN Err(s, "NotInitialized")
    ELSE IF Treasury_require_signer(s, proposer) # "Ok" THEN Err(s, "NotASigner")
    ELSE IF ~auth THEN Trap(s)
    ELSE IF amount <= 0 THEN Err(s, "InvalidAmount")
    ELSE IF s.balance < amount THEN Err(s, "InsufficientFunds")
    ELSE LET next_id == s.tx_counter + 1
             s1 == [s EXCEPT !.tx_counter = next_id, !.balance = @ - amount]
             transaction == [id |-> next_id, to |-> to, amount |-> amount, memo |-> memo,
                             approvals |-> <<proposer>>, executed |-> FALSE,
                             created_at |-> Timestamp, proposer |-> proposer]
         IN Ok([s1 EXCEPT !.transactions = Append(s1.transactions, transaction)], next_id)

Treasury_propose_withdrawal(s, proposer, to, amount, memo, auth) ==
    IF Treasury_require_initialized(s) # "Ok" THEN Err(s, "NotInitialized")
    ELSE IF Treasury_require_signer(s, proposer) # "Ok" THEN Err(s, "NotASigner")
    ELSE IF ~auth THEN Trap(s)
    ELSE IF amount <= 0 THEN Err(s, "InvalidAmount")
    ELSE IF s.balance < amount THEN Err(s, "InsufficientFunds")
    ELSE LET next_id == s.tx_counter + 1
             s1 == [s EXCEPT !.tx_counter = next_id]
             transaction == [id |-> next_id, to |-> to, amount |-> amount, memo |-> memo,
                             approvals |-> <<proposer>>, executed |-> FALSE,
                             created_at |-> Timestamp, proposer |-> proposer]
         IN Ok([s1 EXCEPT !.transactions = Append(s1.transactions, transaction)], next_id)

\* Mutant: the scan stops after the first approval.
Treasury_already_approved_first_only(transaction, signer) ==
    Len(transaction.approvals) > 0 /\ transaction.approvals[1] = signer

Treasury_already_approved(transaction, signer) ==
    Contains(transaction.approvals, signer)

\* Mutant: the approval is put in front of the list.
Treasury_approve_prepending(s, signer, tx_id, auth) ==
    IF Treasury_require_initialized(s) # "Ok" THEN Err(s, "NotInitialized")
    ELSE IF Treasury_require_signer(s, signer) # "Ok" THEN Err(s, "NotASigner")
    ELSE IF ~auth THEN Trap(s)
    ELSE IF tx_id \notin DOMAIN s.transactions THEN Err(s, "TransactionNotFound")
    ELSE LET transaction == s.transactions[tx_id] IN
         IF transaction.executed THEN Err(s, "AlreadyExecuted")
         ELSE IF Treasury_already_approved(transaction, signer) THEN Err(s, "AlreadyApproved")
         ELSE LET approvals == <<signer>> \o transaction.approvals IN
              Ok([s EXCEPT !.transactions[tx_id].approvals = approvals], Len(approvals))

Treasury_approve(s, signer, tx_id, auth) ==
    IF Treasury_require_initialized(s) # "Ok" THEN Err(s, "NotInitialized")
    ELSE IF Treasury_require_signer(s, signer) # "Ok" THEN Err(s, "NotASigner")
    ELSE IF ~auth THEN Trap(s)
    ELSE IF tx_id \notin DOMAIN s.transactions THEN Err(s, "TransactionNotFound")
    ELSE LET transaction == s.transactions[tx_id] IN
         IF transaction.executed THEN Err(s, "AlreadyExecuted")
         ELSE IF Treasury_already_approved(transaction, signer) THEN Err(s, "AlreadyApproved")
         ELSE LET approvals == Append(transaction.approvals, signer) IN
              Ok([s EXCEPT !.transactions[tx_id].approvals = approvals], Len(approvals))

\* Mutant: `<=` for `<` turned around, one approval short passes.
Treasury_threshold_met_off_by_one(transaction, threshold) ==
    ~(Len(transaction.approvals) + 1 < threshold)

\* `transaction.approvals.len() < threshold` is false.
Treasury_threshold_met(transaction, threshold) ==
    ~(Len(transaction.approvals) < threshold)

\* Mutant: execute without the `if transaction.executed` check.
Treasury_execute_unguarded(s, executor, tx_id, auth) ==
    IF Treasury_require_initialized(s) # "Ok" THEN Err(s, "NotInitialized")
    ELSE IF Treasury_require_signer(s, executor) # "Ok" THEN Err(s, "NotASigner")
    ELSE IF ~auth THEN Trap(s)
    ELSE IF tx_id \notin DOMAIN s.transactions THEN Err(s, "TransactionNotFound")
    ELSE LET transaction == s.transactions[tx_id] IN
         IF ~Treasury_threshold_met(transaction, s.threshold) THEN Err(s, "Unauthorized")
         ELSE IF s.balance < transaction.amount THEN Err(s, "InsufficientFunds")
         ELSE LET new_balance == s.balance - transaction.amount IN
              Ok([s EXCEPT !.balance = new_balance,
                           !.transactions[tx_id].executed = TRUE], "none")

\* Mutant: only an address that approved the transaction may execute it.
Treasury_execute_approvers_only(s, executor, tx_id, auth) ==
    IF Treasury_require_initialized(s) # "Ok" THEN Err(s, "NotInitialized")
    ELSE IF Treasury_require_signer(s, executor) # "Ok" THEN Err(s, "NotASigner")
    ELSE IF ~auth THEN Trap(s)
    ELSE IF tx_id \notin DOMAIN s.transactions THEN Err(s, "TransactionNotFound")
    ELSE LET transaction == s.transactions[tx_id] IN
         IF transaction.executed THEN Err(s, "AlreadyExecuted")
         ELSE IF ~Treasury_threshold_met(transaction, s.threshold) THEN Err(s, "Unauthorized")
         ELSE IF ~Contains(transaction.approvals, executor) THEN Err(s, "Unauthorized")
         ELSE IF s.balance < transaction.amount THEN Err(s, "InsufficientFunds")
         ELSE LET new_balance == s.balance - transaction.amount IN
              Ok([s EXCEPT !.balance = new_balance,
                           !.transactions[tx_id].executed = TRUE], "none")

Treasury_execute(s, executor, tx_id, auth) ==
    IF Treasury_require_initialized(s) # "Ok" THEN Err(s, "NotInitialized")
    ELSE IF Treasury_require_signer(s, executor) # "Ok" THEN Err(s, "NotASigner")
    ELSE IF ~auth THEN Trap(s)
    ELSE IF tx_id \notin DOMAIN s.transactions THEN Err(s, "TransactionNotFound")
    ELSE LET transaction == s.transactions[tx_id] IN
         IF transaction.executed THEN Err(s, "AlreadyExecuted")
         ELSE IF ~Treasury_threshold_met(transaction, s.threshold) THEN Err(s, "Unauthorized")
         ELSE IF s.balance < transaction.amount THEN Err(s, "InsufficientFunds")
         ELSE LET new_balance == s.balance - transaction.amount IN
              Ok([s EXCEPT !.balance = new_balance,
                           !.transactions[tx_id].executed = TRUE], "none")

Treasury_add_signer(s, admin, new_signer, auth) ==
    IF Treasury_require_initialized(s) # "Ok" THEN Err(s, "NotInitialized")
    ELSE IF Treasury_require_admin(s, admin) # "Ok" THEN Err(s, "Unauthorized")
    ELSE IF ~auth THEN Trap(s)
    ELSE IF Contains(s.signers, new_signer) THEN Err(s, "AlreadySigner")
    ELSE Ok([s EXCEPT !.signers = Append(s.signers, new_signer)], "none")

\* Mutant: remove_signer also withdraws the approvals of the removed address.
Treasury_remove_signer_purging(s, admin, signer, auth) ==
    IF Treasury_require_initialized(s) # "Ok" THEN Err(s, "NotInitialized")
    ELSE IF Treasury_require_admin(s, admin) # "Ok" THEN Err(s, "Unauthorized")
    ELSE IF ~auth THEN Trap(s)
    ELSE IF Len(s.signers) <= s.threshold THEN Err(s, "ThresholdBreach")
    ELSE LET new_signers == Without(s.signers, signer)
             found == Contains(s.signers, signer)
             transactions == [id \in DOMAIN s.transactions |->
                                 [s.transactions[id] EXCEPT !.approvals = Without(@, signer)]]
         IN IF ~found THEN Err(s, "NotASigner")
            ELSE Ok([s EXCEPT !.signers = new_signers, !.transactions = transactions], "none")

Treasury_remove_signer(s, admin, signer, auth) ==
    IF Treasury_require_initialized(s) # "Ok" THEN Err(s, "NotInitialized")
    ELSE IF Treasury_require_admin(s, admin) # "Ok" THEN Err(s, "Unauthorized")
    ELSE IF ~auth THEN Trap(s)
    ELSE IF Len(s.signers) <= s.threshold THEN Err(s, "ThresholdBreach")
    ELSE LET new_signers == Without(s.signers, signer)
             found == Contains(s.signers, signer)
         IN IF ~found THEN Err(s, "NotASigner")
            ELSE Ok([s EXCEPT !.signers = new_signers], "none")

Treasury_set_threshold(s, admin, new_threshold, auth) ==
    IF Treasury_require_initialized(s) # "Ok" THEN Err(s, "NotInitialized")
    ELSE IF Treasury_require_admin(s, admin) # "Ok" THEN Err(s, "Unauthorized")
    ELSE IF ~auth THEN Trap(s)
    ELSE IF new_threshold = 0 \/ new_threshold > Len(s.signers) THEN Err(s, "InvalidThreshold")
    ELSE Ok([s EXCEPT !.threshold = new_threshold], "none")

Treasury_transfer_admin(s, current_admin, new_admin, auth) ==
    IF Treasury_require_initialized(s) # "Ok" THEN Err(s, "NotInitialized")
    ELSE IF Treasury_require_admin(s, current_admin) # "Ok" THEN Err(s, "Unauthorized")
    ELSE IF ~auth THEN Trap(s)
    ELSE Ok([s EXCEPT !.admin = new_admin], "none")

----------------------------------------------------------------------------
(* GovernanceContract *)

GovernanceEmpty ==
    [initialized |-> FALSE, admin |-> NoAddr, members |-> <<>>, quorum_percent |-> 0,
     voting_period |-> 0, proposal_counter |-> 0, proposals |-> <<>>, votes |-> <<>>]

Governance_require_initialized(s) ==
    IF ~s.initialized THEN "NotInitialized" ELSE "Ok"

\* Mutant: require_member passes for every address.
Governance_require_member_anyone(s, caller) == "Ok"

Governance_require_member(s, caller) ==
    IF Contains(s.members, caller) THEN "Ok" ELSE "NotAMember"

Governance_initialize(s, admin, members, quorum_percent, voting_period, auth) ==
    IF s.initialized THEN Err(s, "AlreadyInitialized")
    ELSE IF quorum_percent < 1 \/ quorum_percent > 100 THEN Err(s, "InvalidProposal")
    ELSE IF ~auth THEN Trap(s)
    ELSE Ok([s EXCEPT !.initialized = TRUE, !.admin = admin, !.members = members,
                      !.quorum_percent = quorum_percent, !.voting_period = voting_period,
                      !.proposal_counter = 0], "none")

\* Mutant: ends_at is computed with a wrapping addition.
Governance_create_proposal_wrapping(s, now, proposer, title, description, action, amount, target, auth) ==
    IF Governance_require_initialized(s) # "Ok" THEN Err(s, "NotInitialized")
    ELSE IF Governance_require_member(s, proposer) # "Ok" THEN Err(s, "NotAMember")
    ELSE IF ~auth THEN Trap(s)
    ELSE IF title = "" THEN Err(s, "InvalidProposal")
    ELSE IF description = "" THEN Err(s, "InvalidProposal")
    ELSE IF amount < 0 THEN Err(s, "InvalidProposal")
    ELSE IF action \in {"AddMember", "RemoveMember"} /\ target = ZeroAddress
         THEN Err(s, "InvalidProposal")
    ELSE IF s.proposal_counter + 1 > U64Max THEN Err(s, "Overflow")
    ELSE LET proposal_id == s.proposal_counter + 1
             s1 == [s EXCEPT !.proposal_counter = proposal_id]
             ends_at == WrapU32(now + s1.voting_period)
             proposal ==
                 [id |-> proposal_id, title |-> title, description |-> description,
                  action |-> action, proposer |-> proposer, votes_for |-> 0,
                  votes_against |-> 0, total_votes |-> 0, status |-> "Active",
                  created_at |-> now, ends_at |-> ends_at, amount |-> amount,
                  target |-> target]
         IN Ok([s1 EXCEPT !.proposals = Append(s1.proposals, proposal)], proposal_id)

Governance_create_proposal(s, now, proposer, title, description, action, amount, target, auth) ==
    IF Governance_require_initialized(s) # "Ok" THEN Err(s, "NotInitialized")
    ELSE IF Governance_require_member(s, proposer) # "Ok" THEN Err(s, "NotAMember")
    ELSE IF ~auth THEN Trap(s)
    ELSE IF title = "" THEN Err(s, "InvalidProposal")
    ELSE IF description = "" THEN Err(s, "InvalidProposal")
    ELSE IF amount < 0 THEN Err(s, "InvalidProposal")
    ELSE IF action \in {"AddMember", "RemoveMember"} /\ target = ZeroAddress
         THEN Err(s, "InvalidProposal")
    ELSE IF s.proposal_counter + 1 > U64Max THEN Err(s, "Overflow")
    ELSE LET proposal_id == s.proposal_counter + 1
             s1 == [s EXCEPT !.proposal_counter = proposal_id]
             ends_at == now + s1.voting_period
         IN IF ends_at > U32Max THEN Err(s1, "Overflow")
            ELSE LET proposal ==
                         [id |-> proposal_id, title |-> title, description |-> description,
                          action |-> action, proposer |-> proposer, votes_for |-> 0,
                          votes_against |-> 0, total_votes |-> 0, status |-> "Active",
                          created_at |-> now, ends_at |-> ends_at, amount |-> amount,
                          target |-> target]
                 IN Ok([s1 EXCEPT !.proposals = Append(s1.proposals, proposal)], proposal_id)

\* Mutant: the receipt is never found.
Governance_has_voted_never(s, proposal_id, voter) ==
    FALSE

\* env.storage().persistent().has(&DataKey::Vote(proposal_id, voter))
Governance_has_voted(s, proposal_id, voter) ==
    <<proposal_id, voter>> \in DOMAIN s.votes

\* Mutant: a vote against is not added to total_votes.
Governance_record_vote_against_uncounted(proposal, vote_for) ==
    IF vote_for
    THEN [proposal EXCEPT !.votes_for = @ + 1, !.total_votes = @ + 1]
    ELSE [proposal EXCEPT !.votes_against = @ + 1]

\* The tallies after a vote.  (The u32 `+= 1` cannot overflow: each of at most
\* |Members| addresses adds one.)
Governance_record_vote(proposal, vote_for) ==
    IF vote_for
    THEN [proposal EXCEPT !.votes_for = @ + 1, !.total_votes = @ + 1]
    ELSE [proposal EXCEPT !.votes_against = @ + 1, !.total_votes = @ + 1]

\* env.storage().persistent().set(&vote_key, &vote_for)
Governance_save_vote(votes, proposal_id, voter, vote_for) ==
    [k \in (DOMAIN votes) \cup {<<proposal_id, voter>>} |->
        IF k = <<proposal_id, voter>> THEN vote_for ELSE votes[k]]

Governance_vote(s, now, voter, proposal_id, vote_for, auth) ==
    IF Governance_require_initialized(s) # "Ok" THEN Err(s, "NotInitialized")
    ELSE IF Governance_require_member(s, voter) # "Ok" THEN Err(s, "NotAMember")
    ELSE IF ~auth THEN Trap(s)
    ELSE IF Governance_has_voted(s, proposal_id, voter) THEN Err(s, "AlreadyVoted")
    ELSE IF proposal_id \notin DOMAIN s.proposals THEN Err(s, "ProposalNotFound")
    ELSE LET proposal == s.proposals[proposal_id] IN
         IF proposal.status # "Active" THEN Err(s, "VotingClosed")
         ELSE IF now > proposal.ends_at THEN Err(s, "VotingClosed")
         ELSE Ok([s EXCEPT !.votes = Governance_save_vote(@, proposal_id, voter, vote_for),
                           !.proposals[proposal_id] = Governance_record_vote(proposal, vote_for)],
                 "none")

\* `(members.len() * quorum_percent) / 100` on u32.
Governance_quorum_threshold(member_count, quorum_percent, wrap) ==
    LET product == member_count * quorum_percent IN
    IF product > U32Max
    THEN [panic |-> ~wrap, value |-> WrapU32(product) \div 100]
    ELSE [panic |-> FALSE, value |-> product \div 100]

Governance_final_status(proposal, quorum_threshold) ==
    IF proposal.total_votes < quorum_threshold THEN "Expired"
    ELSE IF proposal.votes_for > proposal.votes_against THEN "Passed"
    ELSE "Rejected"

\* Mutant: finalize is reserved to the admin.
Governance_finalize_admin_only(s, now, caller, proposal_id, auth, wrap) ==
    IF Governance_require_initialized(s) # "Ok" THEN Err(s, "NotInitialized")
    ELSE IF caller # s.admin THEN Err(s, "Unauthorized")
    ELSE IF ~auth THEN Trap(s)
    ELSE IF proposal_id \notin DOMAIN s.proposals THEN Err(s, "ProposalNotFound")
    ELSE LET proposal == s.proposals[proposal_id] IN
         IF proposal.status # "Active" THEN Err(s, "VotingClosed")
         ELSE IF now <= proposal.ends_at THEN Err(s, "VotingStillActive")
         ELSE LET quorum_threshold ==
                      Governance_quorum_threshold(Len(s.members), s.quorum_percent, wrap)
              IN IF quorum_threshold.panic THEN Trap(s)
                 ELSE LET final_status == Governance_final_status(proposal, quorum_threshold.value)
                      IN Ok([s EXCEPT !.proposals[proposal_id].status = final_status],
                            final_status)

\* Mutant: finalize without the `proposal.status != Active` check.
Governance_finalize_any_status(s, now, caller, proposal_id, auth, wrap) ==
    IF Governance_require_initialized(s) # "Ok" THEN Err(s, "NotInitialized")
    ELSE IF Governance_require_member(s, caller) # "Ok" THEN Err(s, "NotAMember")
    ELSE IF ~auth THEN Trap(s)
    ELSE IF proposal_id \notin DOMAIN s.proposals THEN Err(s, "ProposalNotFound")
    ELSE LET proposal == s.proposals[proposal_id] IN
         IF now <= proposal.ends_at THEN Err(s, "VotingStillActive")
         ELSE LET quorum_threshold ==
                      Governance_quorum_threshold(Len(s.members), s.quorum_percent, wrap)
              IN IF quorum_threshold.panic THEN Trap(s)
                 ELSE LET final_status == Governance_final_status(proposal, quorum_threshold.value)
                      IN Ok([s EXCEPT !.proposals[proposal_id].status = final_status],
                            final_status)

\* Mutant: `<` for `<=`, finalize is open at the ledger ends_at itself.
Governance_finalize_at_end(s, now, caller, proposal_id, auth, wrap) ==
    IF Governance_require_initialized(s) # "Ok" THEN Err(s, "NotInitialized")
    ELSE IF Governance_require_member(s, caller) # "Ok" THEN Err(s, "NotAMember")
    ELSE IF ~auth THEN Trap(s)
    ELSE IF proposal_id \notin DOMAIN s.proposals THEN Err(s, "ProposalNotFound")
    ELSE LET proposal == s.proposals[proposal_id] IN
         IF proposal.status # "Active" THEN Err(s, "VotingClosed")
         ELSE IF now < proposal.ends_at THEN Err(s, "VotingStillActive")
         ELSE LET quorum_threshold ==
                      Governance_quorum_threshold(Len(s.members), s.quorum_percent, wrap)
              IN IF quorum_threshold.panic THEN Trap(s)
                 ELSE LET final_status == Governance_final_status(proposal, quorum_threshold.value)
                      IN Ok([s EXCEPT !.proposals[proposal_id].status = final_status],
                            final_status)

Governance_finalize(s, now, caller, proposal_id, auth, wrap) ==
    IF Governance_require_initialized(s) # "Ok" THEN Err(s, "NotInitialized")
    ELSE IF Governance_require_member(s, caller) # "Ok" THEN Err(s, "NotAMember")
    ELSE IF ~auth THEN Trap(s)
    ELSE IF proposal_id \notin DOMAIN s.proposals THEN Err(s, "ProposalNotFound")
    ELSE LET proposal == s.proposals[proposal_id] IN
         IF proposal.status # "Active" THEN Err(s, "VotingClosed")
         ELSE IF now <= proposal.ends_at THEN Err(s, "VotingStillActive")
         ELSE LET quorum_threshold ==
                      Governance_quorum_threshold(Len(s.members), s.quorum_percent, wrap)
              IN IF quorum_threshold.panic THEN Trap(s)
                 ELSE LET final_status == Governance_final_status(proposal, quorum_threshold.value)
                      IN Ok([s EXCEPT !.proposals[proposal_id].status = final_status],
                            final_status)

\* Mutant: internal_add_member without the `already a member` early return.
Governance_internal_add_member_always(members, member) == Append(members, member)

Governance_internal_add_member(members, member) ==
    IF Contains(members, member) THEN members ELSE Append(members, member)

Governance_internal_remove_member(members, member) ==
    Without(members, member)

\* Mutant: any authenticated address may execute.
Governance_may_execute_anyone(s, proposal, executor) == TRUE

Governance_may_execute(s, proposal, executor) ==
    ~(executor # s.admin /\ executor # proposal.proposer)

\* Mutant: an executed RemoveMember also deletes the receipts of the target.
Governance_execute_proposal_retracting(s, executor, proposal_id, auth) ==
    IF Governance_require_initialized(s) # "Ok" THEN Err(s, "NotInitialized")
    ELSE IF ~auth THEN Trap(s)
    ELSE IF proposal_id \notin DOMAIN s.proposals THEN Err(s, "ProposalNotFound")
    ELSE LET proposal == s.proposals[proposal_id] IN
         IF proposal.status # "Passed" THEN Err(s, "ProposalRejected")
         ELSE IF ~Governance_may_execute(s, proposal, executor) THEN Err(s, "Unauthorized")
         ELSE LET members ==
                      IF proposal.action = "AddMember"
                      THEN Governance_internal_add_member(s.members, proposal.target)
                      ELSE IF proposal.action = "RemoveMember"
                      THEN Governance_internal_remove_member(s.members, proposal.target)
                      ELSE s.members
                  kept == IF proposal.action = "RemoveMember"
                          THEN {k \in DOMAIN s.votes : k[2] # proposal.target}
                          ELSE DOMAIN s.votes
              IN Ok([s EXCEPT !.members = members,
                              !.votes = [k \in kept |-> s.votes[k]],
                              !.proposals[proposal_id].status = "Executed"], "none")

\* Mutant: execute_proposal without the `proposal.status != Passed` check.
Governance_execute_proposal_any_status(s, executor, proposal_id, auth) ==
    IF Governance_require_initialized(s) # "Ok" THEN Err(s, "NotInitialized")
    ELSE IF ~auth THEN Trap(s)
    ELSE IF proposal_id \notin DOMAIN s.proposals THEN Err(s, "ProposalNotFound")
    ELSE LET proposal == s.proposals[proposal_id] IN
         IF ~Governance_may_execute(s, proposal, executor) THEN Err(s, "Unauthorized")
         ELSE LET members ==
                      IF proposal.action = "AddMember"
                      THEN Governance_internal_add_member(s.members, proposal.target)
                      ELSE IF proposal.action = "RemoveMember"
                      THEN Governance_internal_remove_member(s.members, proposal.target)
                      ELSE s.members
              IN Ok([s EXCEPT !.members = members,
                              !.proposals[proposal_id].status = "Executed"], "none")

Governance_execute_proposal(s, executor, proposal_id, auth) ==
    IF Governance_require_initialized(s) # "Ok" THEN Err(s, "NotInitialized")
    ELSE IF ~auth THEN Trap(s)
    ELSE IF proposal_id \notin DOMAIN s.proposals THEN Err(s, "ProposalNotFound")
    ELSE LET proposal == s.proposals[proposal_id] IN
         IF proposal.status # "Passed" THEN Err(s, "ProposalRejected")
         ELSE IF ~Governance_may_execute(s, proposal, executor) THEN Err(s, "Unauthorized")
         ELSE LET members ==
                      IF proposal.action = "AddMember"
                      THEN Governance_internal_add_member(s.members, proposal.target)
                      ELSE IF proposal.action = "RemoveMember"
                      THEN Governance_internal_remove_member(s.members, proposal.target)
                      ELSE s.members
              IN Ok([s EXCEPT !.members = members,
                              !.proposals[proposal_id].status = "Executed"], "none")

Governance_transfer_admin(s, current_admin, new_admin, auth) ==
    IF Governance_require_initialized(s) # "Ok" THEN Err(s, "NotInitialized")
    ELSE IF current_admin # s.admin THEN Err(s, "Unauthorized")
    ELSE IF ~auth THEN Trap(s)
    ELSE Ok([s EXCEPT !.admin = new_admin], "none")

Governance_set_quorum(s, admin, new_quorum, auth) ==
    IF Governance_require_initialized(s) # "Ok" THEN Err(s, "NotInitialized")
    ELSE IF admin # s.admin THEN Err(s, "Unauthorized")
    ELSE IF ~auth THEN Trap(s)
    ELSE Ok([s EXCEPT !.quorum_percent = new_quorum], "none")

----------------------------------------------------------------------------
(* AccessControlContract *)

\* enum Role, with `role as u32`.
Roles == {"Viewer", "Member", "Admin", "Owner"}

AccessEmpty ==
    [initialized |-> FALSE, owner |-> NoAddr, roles |-> <<>>, all_members |-> <<>>,
     role_count |-> [r \in Roles |-> 0]]

\* RoleAssignment { address, role, assigned_at, assigned_by }.  assigned_at and
\* assigned_by are written by the entry points and read by none of them: the
\* stored record keeps the address and the role.
RoleAssignment(address, role, assigned_by) ==
    [address |-> address, role |-> role]

\* env.storage().persistent().set(&DataKey::Role(address), &assignment)
Access_set_role(roles, address, assignment) ==
    [a \in (DOMAIN roles) \cup {address} |-> IF a = address THEN assignment ELSE roles[a]]

\* env.storage().persistent().remove(&DataKey::Role(address))
Access_remove_role(roles, address) ==
    [a \in (DOMAIN roles) \ {address} |-> roles[a]]

Access_require_initialized(s) ==
    IF ~s.initialized THEN "NotInitialized" ELSE "Ok"

\* The role of the address, or the error RoleNotFound.
Access_internal_get_role(s, address) ==
    IF address \in DOMAIN s.roles THEN s.roles[address].role ELSE "RoleNotFound"

Access_initialize(s, owner, auth) ==
    IF s.initialized THEN Err(s, "AlreadyInitialized")
    ELSE IF ~auth THEN Trap(s)
    ELSE Ok([s EXCEPT !.initialized = TRUE, !.owner = owner,
                      !.roles = Access_set_role(@, owner, RoleAssignment(owner, "Owner", owner)),
                      !.all_members = <<owner>>,
                      !.role_count = [r \in Roles |-> IF r = "Owner" THEN 1 ELSE 0]], "none")

\* Mutant: an Admin may grant Admin.
Access_may_assign_admin_by_admin(assignor_role, role) ==
    IF assignor_role # "Owner" /\ assignor_role # "Admin" THEN "InsufficientPrivilege"
    ELSE IF role = "Owner" /\ assignor_role # "Owner" THEN "InsufficientPrivilege"
    ELSE "Ok"

\* The match on `role` of assign_role: the error it returns, or "Ok".
Access_may_assign(assignor_role, role) ==
    IF role \in {"Owner", "Admin"}
    THEN IF assignor_role # "Owner" THEN "InsufficientPrivilege" ELSE "Ok"
    ELSE IF assignor_role # "Owner" /\ assignor_role # "Admin" THEN "InsufficientPrivilege"
         ELSE "Ok"

\* Mutant: the count of the role that is left is not decremented.
Access_decrement_never(count) == count

\* `if old_count > 0 { old_count -= 1 }`
Access_decrement(count) == IF count > 0 THEN count - 1 ELSE count

\* assign_role from the read of `count` on: `count` is read before the old role's
\* count is written, and count + 1 is written last.
Access_assign_counts(s, target, role) ==
    LET count == s.role_count[role]
        s1 == IF target \in DOMAIN s.roles
              THEN LET old_role == s.roles[target].role IN
                   [s EXCEPT !.role_count[old_role] = Access_decrement(@)]
              ELSE [s EXCEPT !.all_members = Append(@, target)]
    IN [s1 EXCEPT !.role_count[role] = count + 1]

Access_assign_role(s, assignor, target, role, auth) ==
    IF Access_require_initialized(s) # "Ok" THEN Err(s, "NotInitialized")
    ELSE IF ~auth THEN Trap(s)
    ELSE LET assignor_role == Access_internal_get_role(s, assignor) IN
         IF assignor_role = "RoleNotFound" THEN Err(s, "RoleNotFound")
         ELSE IF Access_may_assign(assignor_role, role) # "Ok"
              THEN Err(s, Access_may_assign(assignor_role, role))
         ELSE LET s1 == Access_assign_counts(s, target, role) IN
              Ok([s1 EXCEPT !.roles = Access_set_role(@, target,
                                                      RoleAssignment(target, role, assignor))],
                 "none")

\* Mutant: revoke_role without the `role == Role::Owner` check.
Access_may_revoke_owner_too(revoker_role, target_role) ==
    IF target_role = "Admin" /\ revoker_role # "Owner" THEN "InsufficientPrivilege"
    ELSE "Ok"

\* The two checks of revoke_role on the target's role: the error, or "Ok".
Access_may_revoke(revoker_role, target_role) ==
    IF target_role = "Owner" THEN "CannotRemoveOwner"
    ELSE IF target_role = "Admin" /\ revoker_role # "Owner" THEN "InsufficientPrivilege"
    ELSE "Ok"

Access_revoke_role(s, revoker, target, auth) ==
    IF Access_require_initialized(s) # "Ok" THEN Err(s, "NotInitialized")
    ELSE IF ~auth THEN Trap(s)
    ELSE LET revoker_role == Access_internal_get_role(s, revoker) IN
         IF revoker_role = "RoleNotFound" THEN Err(s, "RoleNotFound")
         ELSE IF revoker_role # "Owner" /\ revoker_role # "Admin"
              THEN Err(s, "InsufficientPrivilege")
         ELSE IF target \notin DOMAIN s.roles THEN Err(s, "RoleNotFound")
         ELSE LET target_assignment == s.roles[target] IN
              IF Access_may_revoke(revoker_role, target_assignment.role) # "Ok"
              THEN Err(s, Access_may_revoke(revoker_role, target_assignment.role))
              ELSE Ok([s EXCEPT !.role_count[target_assignment.role] = Access_decrement(@),
                                !.roles = Access_remove_role(@, target),
                                !.all_members = Without(@, target)], "none")

\* transfer_ownership: `if !found { members.push_back(new_owner) }`
Access_join_members(members, new_owner) ==
    IF Contains(members, new_owner) THEN members ELSE Append(members, new_owner)

Access_transfer_ownership(s, current_owner, new_owner, auth) ==
    IF Access_require_initialized(s) # "Ok" THEN Err(s, "NotInitialized")
    ELSE IF ~auth THEN Trap(s)
    ELSE IF current_owner # s.owner THEN Err(s, "Unauthorized")
    ELSE LET roles1 == Access_set_role(s.roles, new_owner,
                                       RoleAssignment(new_owner, "Owner", current_owner))
             roles2 == Access_set_role(roles1, current_owner,
                                       RoleAssignment(current_owner, "Admin", current_owner))
             members == Access_join_members(s.all_members, new_owner)
         IN Ok([s EXCEPT !.owner = new_owner, !.roles = roles2, !.all_members = members,
                         !.role_count["Admin"] = @ + 1], "none")

\* enum Role { Viewer = 1, Member = 2, Admin = 3, Owner = 4 }: the derived order
\* is that of the discriminants.
Role_as_u32(role) ==
    CASE role = "Viewer" -> 1 [] role = "Member" -> 2 [] role = "Admin" -> 3
      [] role = "Owner" -> 4

Access_has_permission(s, address, required_role) ==
    LET role_result == Access_internal_get_role(s, address) IN
    IF role_result = "RoleNotFound" THEN FALSE
    ELSE Role_as_u32(role_result) >= Role_as_u32(required_role)

Access_is_owner(s, address) ==
    LET role_result == Access_internal_get_role(s, address) IN
    IF role_result = "RoleNotFound" THEN FALSE ELSE role_result = "Owner"

Access_is_admin_or_above(s, address) ==
    LET role_result == Access_internal_get_role(s, address) IN
    IF role_result = "RoleNotFound" THEN FALSE
    ELSE Role_as_u32(role_result) >= Role_as_u32("Admin")

Access_is_member_or_above(s, address) ==
    LET role_result == Access_internal_get_role(s, address) IN
    IF role_result = "RoleNotFound" THEN FALSE
    ELSE Role_as_u32(role_result) >= Role_as_u32("Member")

----------------------------------------------------------------------------
(* Host.  Commit is the storage after an invocation that returned r from   *)
(* storage s.  An action is one invocation of an entry point; its guard is *)
(* the conjunction of the code's early returns (r.result = "Ok"): an       *)
(* invocation that fails leaves the storage as it was and is a stuttering  *)
(* step.  The conjuncts before each \E repeat the entry point's first      *)
(* check, so that the arguments are enumerated only where a call can       *)
(* succeed.                                                                *)

\* Mutant: only a trap is rolled back, the writes of a call that returns Err are kept.
Commit_rolls_back_traps_only(s, r) == IF r.result = "Trap" THEN s ELSE r.store

\* Mutant: the writes of a failed invocation are kept.
Commit_no_rollback(s, r) == r.store

Commit(s, r) == IF r.result = "Ok" THEN r.store ELSE s

TreasuryInvoke(r) ==
    /\ r.result = "Ok"
    /\ treasury' = Commit(treasury, r)
    /\ UNCHANGED <<contract, governance, ledger, access>>

TrInitialize(admins, lists) ==
    /\ contract = "treasury"
    /\ ~treasury.initialized
    /\ \E admin \in admins, threshold \in 0..(MaxSigners + 1), signers \in lists, auth \in BOOLEAN :
        /\ TreasuryInvoke(Treasury_initialize(treasury, admin, threshold, signers, auth))
        /\ UNCHANGED deposited

TrDeposit(amounts, cap) ==
    /\ contract = "treasury"
    /\ treasury.initialized
    /\ \E from \in {"a1"}, amount \in amounts, auth \in BOOLEAN, wrap \in BOOLEAN :
        /\ deposited + amount <= cap
        /\ TreasuryInvoke(Treasury_deposit(treasury, from, amount, auth, wrap))
        /\ deposited' = deposited + amount

TrProposeWithdrawal(amounts, max) ==
    /\ contract = "treasury"
    /\ treasury.initialized
    /\ treasury.tx_counter < max
    /\ \E proposer \in Addr, amount \in amounts, auth \in BOOLEAN :
        /\ TreasuryInvoke(Treasury_propose_withdrawal(treasury, proposer, Recipient, amount,
                                                      Memo, auth))
        /\ UNCHANGED deposited

TrApprove ==
    /\ contract = "treasury"
    /\ treasury.initialized
    /\ \E signer \in Addr, tx_id \in DOMAIN treasury.transactions, auth \in BOOLEAN :
        /\ TreasuryInvoke(Treasury_approve(treasury, signer, tx_id, auth))
        /\ UNCHANGED deposited

TrExecute ==
    /\ contract = "treasury"
    /\ treasury.initialized
    /\ \E executor \in Addr, tx_id \in DOMAIN treasury.transactions, auth \in BOOLEAN :
        /\ TreasuryInvoke(Treasury_execute(treasury, executor, tx_id, auth))
        /\ UNCHANGED deposited

TrAddSigner ==
    /\ contract = "treasury"
    /\ treasury.initialized
    /\ Len(treasury.signers) < MaxSigners
    /\ \E admin \in Addr, new_signer \in Addr, auth \in BOOLEAN :
        /\ TreasuryInvoke(Treasury_add_signer(treasury, admin, new_signer, auth))
        /\ UNCHANGED deposited

TrRemoveSigner ==
    /\ contract = "treasury"
    /\ treasury.initialized
    /\ \E admin \in Addr, signer \in Addr, auth \in BOOLEAN :
        /\ TreasuryInvoke(Treasury_remove_signer(treasury, admin, signer, auth))
        /\ UNCHANGED deposited

TrSetThreshold ==
    /\ contract = "treasury"
    /\ treasury.initialized
    /\ \E admin \in Addr, new_threshold \in 0..(MaxSigners + 2), auth \in BOOLEAN :
        /\ TreasuryInvoke(Treasury_set_threshold(treasury, admin, new_threshold, auth))
        /\ UNCHANGED deposited

TrTransferAdmin ==
    /\ contract = "treasury"
    /\ treasury.initialized
    /\ \E current_admin \in Addr, new_admin \in Addr, auth \in BOOLEAN :
        /\ TreasuryInvoke(Treasury_transfer_admin(treasury, current_admin, new_admin, auth))
        /\ UNCHANGED deposited

GovernanceInvoke(r) ==
    /\ r.result = "Ok"
    /\ governance' = Commit(governance, r)
    /\ UNCHANGED <<contract, treasury, deposited, access>>

GovInitialize(lists, quorums, periods) ==
    /\ contract = "governance"
    /\ ~governance.initialized
    /\ \E admin \in {"a1"}, members \in lists, quorum_percent \in quorums,
          voting_period \in periods, auth \in BOOLEAN :
        /\ GovernanceInvoke(Governance_initialize(governance, admin, members, quorum_percent,
                                                  voting_period, auth))
        /\ UNCHANGED ledger

GovCreateProposal(kinds, max) ==
    /\ contract = "governance"
    /\ governance.initialized
    /\ governance.proposal_counter < max
    /\ \E proposer \in Addr, text \in ProposalTexts, kind \in kinds, auth \in BOOLEAN :
        /\ GovernanceInvoke(Governance_create_proposal(governance, ledger, proposer, text[1],
                                                       text[2], kind[1], text[3], kind[2], auth))
        /\ UNCHANGED ledger

GovVote ==
    /\ contract = "governance"
    /\ governance.initialized
    /\ \E voter \in Addr, proposal_id \in DOMAIN governance.proposals, vote_for \in BOOLEAN,
          auth \in BOOLEAN :
        /\ GovernanceInvoke(Governance_vote(governance, ledger, voter, proposal_id, vote_for, auth))
        /\ UNCHANGED ledger

GovFinalize ==
    /\ contract = "governance"
    /\ governance.initialized
    /\ \E caller \in Addr, proposal_id \in DOMAIN governance.proposals, auth \in BOOLEAN,
          wrap \in BOOLEAN :
        /\ GovernanceInvoke(Governance_finalize(governance, ledger, caller, proposal_id, auth, wrap))
        /\ UNCHANGED ledger

GovExecuteProposal ==
    /\ contract = "governance"
    /\ governance.initialized
    /\ \E executor \in Addr, proposal_id \in DOMAIN governance.proposals, auth \in BOOLEAN :
        LET r == Governance_execute_proposal(governance, executor, proposal_id, auth) IN
        /\ Len(r.store.members) <= MaxMembers
        /\ GovernanceInvoke(r)
        /\ UNCHANGED ledger

GovTransferAdmin ==
    /\ contract = "governance"
    /\ governance.initialized
    /\ \E current_admin \in Addr, new_admin \in Addr, auth \in BOOLEAN :
        /\ GovernanceInvoke(Governance_transfer_admin(governance, current_admin, new_admin, auth))
        /\ UNCHANGED ledger

GovSetQuorum(quorums) ==
    /\ contract = "governance"
    /\ governance.initialized
    /\ \E admin \in Addr, new_quorum \in quorums, auth \in BOOLEAN :
        /\ GovernanceInvoke(Governance_set_quorum(governance, admin, new_quorum, auth))
        /\ UNCHANGED ledger

AccessInvoke(r) ==
    /\ r.result = "Ok"
    /\ \A role \in Roles : r.store.role_count[role] <= MaxRoleCount
    /\ access' = Commit(access, r)
    /\ UNCHANGED <<contract, treasury, deposited, governance, ledger>>

AcInitialize ==
    /\ contract = "access"
    /\ ~access.initialized
    /\ \E owner \in Addr, auth \in BOOLEAN :
        AccessInvoke(Access_initialize(access, owner, auth))

AcAssignRole ==
    /\ contract = "access"
    /\ access.initialized
    /\ \E assignor \in Addr, target \in Addr, role \in Roles, auth \in BOOLEAN :
        AccessInvoke(Access_assign_role(access, assignor, target, role, auth))

AcRevokeRole ==
    /\ contract = "access"
    /\ access.initialized
    /\ \E revoker \in Addr, target \in Addr, auth \in BOOLEAN :
        AccessInvoke(Access_revoke_role(access, revoker, target, auth))

AcTransferOwnership ==
    /\ contract = "access"
    /\ access.initialized
    /\ \E current_owner \in Addr, new_owner \in Addr, auth \in BOOLEAN :
        AccessInvoke(Access_transfer_ownership(access, current_owner, new_owner, auth))

\* The host closes a ledger: the sequence number advances.
Tick ==
    /\ contract = "governance"
    /\ ledger < MaxLedger
    /\ ledger' = ledger + 1
    /\ UNCHANGED <<contract, treasury, deposited, governance, access>>

----------------------------------------------------------------------------
(* Specifications *)

Init ==
    /\ contract \in {"treasury", "governance", "access"}
    /\ treasury = TreasuryEmpty
    /\ deposited = 0
    /\ governance = GovernanceEmpty
    /\ ledger = 0
    /\ access = AccessEmpty

\* The behaviours of one contract.
InitTR == Init /\ contract = "treasury"

InitGOV == Init /\ contract = "governance"

InitAC == Init /\ contract = "access"

\* SpecTR: the multi-signature machine and signer management.  Every signer
\* list initialize accepts (duplicates included); one deposit of 2, so that
\* the balance arithmetic stays in range; withdrawals of 1.
NextTR ==
    \/ TrInitialize({"a1"}, AddrSeqs(MaxSigners))
    \/ TrDeposit({0, 2}, 2)
    \/ TrProposeWithdrawal({0, 1, 3}, MaxTx)
    \/ TrApprove
    \/ TrExecute
    \/ TrAddSigner
    \/ TrRemoveSigner
    \/ TrSetThreshold

SpecTR == InitTR /\ [][NextTR]_vars

\* SpecTRBalance: the balance ledger.  One signer; deposits up to I128Max,
\* whose sum can leave the i128 range.
NextTRBalance ==
    \/ TrInitialize({"a1"}, {<<"a1">>, <<"a1", "a2">>})
    \/ TrDeposit({-1, 0, 1, I128Max}, I128Max + MaxOverDeposit)
    \/ TrProposeWithdrawal({0, 1, 2}, MaxTxBalance)
    \/ TrApprove
    \/ TrExecute
    \/ TrTransferAdmin

SpecTRBalance == InitTR /\ [][NextTRBalance]_vars

\* SpecTRThreshold: the threshold moves while transactions are pending.
NextTRThreshold ==
    \/ TrInitialize({"a1"}, {<<"a1", "a2">>})
    \/ TrDeposit({2}, 2)
    \/ TrProposeWithdrawal({1}, MaxTx)
    \/ TrApprove
    \/ TrExecute
    \/ TrSetThreshold

SpecTRThreshold == InitTR /\ [][NextTRThreshold]_vars

\* SpecGOV: the proposal lifecycle with membership changes.
ProposalKinds ==
    {<<"General", ZeroAddress>>, <<"AddMember", "a3">>, <<"RemoveMember", "a2">>,
     <<"AddMember", ZeroAddress>>}

NextGOV ==
    \/ GovInitialize(UNION {[1..k -> Founders] : k \in 0..MaxMembers}, {0, 50, 100, 101}, {1})
    \/ GovCreateProposal(ProposalKinds, MaxProposals)
    \/ GovVote
    \/ GovFinalize
    \/ GovExecuteProposal
    \/ Tick

SpecGOV == InitGOV /\ [][NextGOV]_vars

\* SpecGOVQuorum: the quorum arithmetic of finalize.  set_quorum stores any u32,
\* so |Members| * QuorumPercent can leave the u32 range.
NextGOVQuorum ==
    \/ GovInitialize({<<"a1">>, <<"a1", "a2">>}, {50, 100}, {1})
    \/ GovCreateProposal({<<"General", ZeroAddress>>}, MaxProposals)
    \/ GovVote
    \/ GovFinalize
    \/ GovSetQuorum({0, 50, 2 ^ (U32Bits - 1), U32Max})
    \/ GovTransferAdmin
    \/ Tick

SpecGOVQuorum == InitGOV /\ [][NextGOVQuorum]_vars

\* SpecGOVMembers: the member list under executed proposals.  The targets are a
\* founder, who may already be a member, and an address that is not one.
MemberKinds ==
    {<<"AddMember", "a1">>, <<"AddMember", "a3">>, <<"RemoveMember", "a2">>,
     <<"RemoveMember", "a3">>}

NextGOVMembers ==
    \/ GovInitialize({<<"a1">>, <<"a1", "a2">>, <<"a2", "a2">>}, {50}, {1})
    \/ GovCreateProposal(MemberKinds, MaxProposals)
    \/ GovVote
    \/ GovFinalize
    \/ GovExecuteProposal
    \/ Tick

SpecGOVMembers == InitGOV /\ [][NextGOVMembers]_vars

\* SpecGOVReceipts: votes on one proposal while another removes a voter, who may
\* be the only member.
NextGOVReceipts ==
    \/ GovInitialize({<<"a1", "a2">>, <<"a2">>}, {100}, {1})
    \/ GovCreateProposal({<<"RemoveMember", "a2">>}, MaxVotedProposals)
    \/ GovVote
    \/ GovFinalize
    \/ GovExecuteProposal
    \/ Tick

SpecGOVReceipts == InitGOV /\ [][NextGOVReceipts]_vars

\* SpecRepeat: either contract, the entry points that record an approval or a
\* vote and those that close a transaction or a proposal or remove the caller.
NextRepeat ==
    \/ TrInitialize({"a1"}, {<<"a1", "a2">>, <<"a1", "a1">>})
    \/ TrDeposit({2}, 2)
    \/ TrProposeWithdrawal({1}, MaxTx)
    \/ TrApprove
    \/ TrExecute
    \/ TrRemoveSigner
    \/ GovInitialize({<<"a1", "a2">>}, {50}, {1})
    \/ GovCreateProposal({<<"General", ZeroAddress>>, <<"RemoveMember", "a2">>}, MaxProposals)
    \/ GovVote
    \/ GovFinalize
    \/ GovExecuteProposal
    \/ Tick

SpecRepeat == Init /\ [][NextRepeat]_vars

\* SpecIds: either contract, the creation entry points and what makes them fail.
\* A voting period of U32Max lets ends_at overflow at every ledger after 0.
NextIds ==
    \/ TrInitialize({"a1"}, {<<"a1">>, <<"a1", "a2">>})
    \/ TrDeposit({2}, 2)
    \/ TrProposeWithdrawal({0, 1, 3}, MaxTx)
    \/ TrApprove
    \/ TrExecute
    \/ GovInitialize({<<"a1">>, <<"a1", "a2">>}, {50}, {1, U32Max})
    \/ GovCreateProposal(ProposalKinds, MaxProposals)
    \/ GovVote
    \/ Tick

SpecIds == Init /\ [][NextIds]_vars

\* SpecAC: the role hierarchy.
NextAC ==
    \/ AcInitialize
    \/ AcAssignRole
    \/ AcRevokeRole
    \/ AcTransferOwnership

SpecAC == InitAC /\ [][NextAC]_vars

\* SpecEntry: any contract, from deployment on: the entry points of SpecIds and
\* of SpecAC.
NextEntry ==
    \/ NextIds
    \/ NextAC

SpecEntry == Init /\ [][NextEntry]_vars

\* Spec: any contract, every entry point of SpecTR, SpecGOV and SpecAC.
Next ==
    \/ NextTR
    \/ NextGOV
    \/ NextAC

Spec == Init /\ [][Next]_vars

----------------------------------------------------------------------------
(* Treasury claims *)

IsSigner(a) == Contains(treasury.signers, a)

Pending(id) == id \in DOMAIN treasury.transactions /\ ~treasury.transactions[id].executed

Executed(id) == id \in DOMAIN treasury.transactions /\ treasury.transactions[id].executed

BelowThreshold(id) == Len(treasury.transactions[id].approvals) < treasury.threshold

\* A call that fails with error e and leaves the storage as it was.
FailsWith(s, r, e) == r.result = e /\ Commit(s, r) = s

\* Every step that turns a transaction's executed flag to true starts in a state
\* where its approvals are at least the stored Threshold, and no transaction is
\* created executed.
ExecutedMetThreshold ==
    \A id \in DOMAIN treasury'.transactions :
        treasury'.transactions[id].executed =>
            \/ Executed(id)
            \/ Pending(id) /\ Len(treasury.transactions[id].approvals) >= treasury.threshold

\* C1 as stated: every execution met the Threshold of its moment, and an execute
\* call (by an authenticated signer) on ANY stored transaction with fewer
\* approvals than the current Threshold fails with Unauthorized, nothing changed.
C1_AsStated ==
    /\ [][ExecutedMetThreshold]_vars
    /\ [](\A executor \in Addr, id \in DOMAIN treasury.transactions :
            IsSigner(executor) /\ BelowThreshold(id) =>
                FailsWith(treasury, Treasury_execute(treasury, executor, id, TRUE),
                          "Unauthorized"))

\* C1 amended: every execution met the Threshold of its moment, and an execute
\* call by an authenticated signer on a NOT YET EXECUTED transaction with fewer
\* approvals than the current Threshold fails with Unauthorized, nothing changed
\* (on an executed one it fails with AlreadyExecuted); for any caller such a call
\* never succeeds.
C1_ExecuteNeedsThreshold ==
    /\ [][ExecutedMetThreshold]_vars
    /\ [](\A executor \in Addr, id \in DOMAIN treasury.transactions, auth \in BOOLEAN :
            LET r == Treasury_execute(treasury, executor, id, auth) IN
            BelowThreshold(id) =>
                /\ r.result # "Ok"
                /\ Commit(treasury, r) = treasury
                /\ IsSigner(executor) /\ auth /\ Pending(id) => r.result = "Unauthorized"
                /\ IsSigner(executor) /\ auth /\ Executed(id) => r.result = "AlreadyExecuted")

\* An executed transaction stands beside a pending one that is below the
\* Threshold, with a signer who could call execute; the executed one is itself
\* below the Threshold now (it was raised after the execution).
C1_Witness ==
    \E id \in DOMAIN treasury.transactions, id2 \in DOMAIN treasury.transactions,
       a \in Addr :
        /\ IsSigner(a)
        /\ Executed(id) /\ BelowThreshold(id)
        /\ Pending(id2) /\ BelowThreshold(id2)

\* C2 as stated: once initialized, 1 <= Threshold <= |Signers|.
C2_ThresholdInRange ==
    treasury.initialized =>
        1 <= treasury.threshold /\ treasury.threshold <= Len(treasury.signers)

\* C3 as stated: Balance >= 0 in every reachable state.
C3_BalanceNonNegative == treasury.balance >= 0

RECURSIVE SumExecuted(_)
SumExecuted(txs) ==
    IF txs = <<>> THEN 0
    ELSE (IF Head(txs).executed THEN Head(txs).amount ELSE 0) + SumExecuted(Tail(txs))

\* C4 as stated: Balance = sum of successful deposits - sum of the amounts of the
\* executed transactions.
C4_BalanceIsLedger ==
    treasury.balance = deposited - SumExecuted(treasury.transactions)

NoDuplicates(v) == \A i, j \in 1..Len(v) : v[i] = v[j] => i = j

\* Every address that a step adds to an approvals list (by approve, or as the
\* proposer of a new transaction) is in Signers in the state the step starts from.
ApprovalsAddedBySigners ==
    \A id \in DOMAIN treasury'.transactions :
        LET new == treasury'.transactions[id].approvals
            old == IF id \in DOMAIN treasury.transactions
                   THEN treasury.transactions[id].approvals ELSE <<>>
        IN \A i \in 1..Len(new) : Contains(old, new[i]) \/ IsSigner(new[i])

\* C5: no approvals list holds an address twice; every address in one was in
\* Signers when it was recorded; approve by a non-signer fails with NotASigner.
C5_ApprovalsUniqueSigners ==
    /\ [](\A id \in DOMAIN treasury.transactions :
            NoDuplicates(treasury.transactions[id].approvals))
    /\ [][ApprovalsAddedBySigners]_vars
    /\ [](treasury.initialized =>
            \A a \in Addr, id \in 1..(MaxTx + 1), auth \in BOOLEAN :
                ~IsSigner(a) =>
                    FailsWith(treasury, Treasury_approve(treasury, a, id, auth), "NotASigner"))

\* A transaction with two approvals, one of them by an address that has since
\* been removed from Signers.
C5_Witness ==
    \E id \in DOMAIN treasury.transactions :
        LET approvals == treasury.transactions[id].approvals IN
        /\ Len(approvals) >= 2
        /\ \E i \in 1..Len(approvals) : ~IsSigner(approvals[i])

\* An executed transaction is the same in the next state.
ExecutedIsFinal ==
    \A id \in DOMAIN treasury.transactions :
        treasury.transactions[id].executed =>
            /\ id \in DOMAIN treasury'.transactions
            /\ treasury'.transactions[id] = treasury.transactions[id]

\* C6: executed only goes from false to true and stays; approve and execute (by an
\* authenticated signer) on an executed transaction fail with AlreadyExecuted and
\* change neither Balance nor the transaction.
C6_ExecutedIsTerminal ==
    /\ [][ExecutedIsFinal]_vars
    /\ [](\A a \in Addr, id \in DOMAIN treasury.transactions :
            IsSigner(a) /\ Executed(id) =>
                /\ FailsWith(treasury, Treasury_approve(treasury, a, id, TRUE), "AlreadyExecuted")
                /\ FailsWith(treasury, Treasury_execute(treasury, a, id, TRUE), "AlreadyExecuted"))

\* An executed transaction that some signer has not approved, with enough
\* balance left to pay it a second time.
C6_Witness ==
    \E id \in DOMAIN treasury.transactions, a \in Addr :
        /\ Executed(id)
        /\ IsSigner(a)
        /\ ~Contains(treasury.transactions[id].approvals, a)
        /\ treasury.balance >= treasury.transactions[id].amount

----------------------------------------------------------------------------
(* Governance claims *)

IsMember(a) == Contains(governance.members, a)

HasReceipt(id, a) == <<id, a>> \in DOMAIN governance.votes

StatusOf(id) == governance.proposals[id].status

LegalEdges ==
    {<<"Active", "Passed">>, <<"Active", "Rejected">>, <<"Active", "Expired">>,
     <<"Passed", "Executed">>}

\* No proposal disappears, a new proposal is Active, and a status that changes in
\* a step changes along a legal edge: out of Active by a successful finalize of
\* that proposal, from Passed to Executed by a successful execute_proposal of it.
LegalStatusChange ==
    /\ Len(governance'.proposals) >= Len(governance.proposals)
    /\ \A id \in DOMAIN governance'.proposals :
        IF id \notin DOMAIN governance.proposals
        THEN governance'.proposals[id].status = "Active"
        ELSE LET old == StatusOf(id)
                 new == governance'.proposals[id].status
             IN old # new =>
                 /\ <<old, new>> \in LegalEdges
                 /\ old = "Active" =>
                     \E caller \in Addr, wrap \in BOOLEAN :
                         LET r == Governance_finalize(governance, ledger, caller, id, TRUE, wrap)
                         IN r.result = "Ok" /\ governance' = r.store
                 /\ old = "Passed" =>
                     \E executor \in Addr :
                         LET r == Governance_execute_proposal(governance, executor, id, TRUE)
                         IN r.result = "Ok" /\ governance' = r.store

\* finalize (by an authenticated member) on a non-Active proposal fails with
\* VotingClosed, execute_proposal (authenticated) on a non-Passed one fails with
\* ProposalRejected, nothing changed.
ClosedRejectsFinalizeAndExecute ==
    \A a \in Addr, id \in DOMAIN governance.proposals, wrap \in BOOLEAN :
        /\ IsMember(a) /\ StatusOf(id) # "Active" =>
            FailsWith(governance, Governance_finalize(governance, ledger, a, id, TRUE, wrap),
                      "VotingClosed")
        /\ StatusOf(id) # "Passed" =>
            FailsWith(governance, Governance_execute_proposal(governance, a, id, TRUE),
                      "ProposalRejected")

Receipts(id, vote_for) ==
    {k \in DOMAIN governance.votes : k[1] = id /\ governance.votes[k] = vote_for}

TalliesMatchReceipts ==
    /\ \A k \in DOMAIN governance.votes : k[1] \in DOMAIN governance.proposals
    /\ \A id \in DOMAIN governance.proposals :
        LET proposal == governance.proposals[id] IN
        /\ proposal.votes_for = Cardinality(Receipts(id, TRUE))
        /\ proposal.votes_against = Cardinality(Receipts(id, FALSE))
        /\ proposal.total_votes = proposal.votes_for + proposal.votes_against

\* A receipt, once stored, stays as it is; every receipt a step stores adds one to
\* the tally of its direction, and a tally moves by nothing else.
ReceiptIffCounted ==
    /\ \A k \in DOMAIN governance.votes :
        k \in DOMAIN governance'.votes /\ governance'.votes[k] = governance.votes[k]
    /\ \A id \in DOMAIN governance'.proposals :
        LET old_for == IF id \in DOMAIN governance.proposals
                       THEN governance.proposals[id].votes_for ELSE 0
            old_against == IF id \in DOMAIN governance.proposals
                           THEN governance.proposals[id].votes_against ELSE 0
            added == {k \in (DOMAIN governance'.votes) \ (DOMAIN governance.votes) : k[1] = id}
        IN /\ governance'.proposals[id].votes_for - old_for =
                  Cardinality({k \in added : governance'.votes[k]})
           /\ governance'.proposals[id].votes_against - old_against =
                  Cardinality({k \in added : ~governance'.votes[k]})

\* C8: votes_for / votes_against are the numbers of stored receipts with value
\* true / false for the proposal, total_votes is their sum, and a receipt is
\* stored exactly in the step that adds the voter's vote to the tallies.
C8_TalliesAreReceipts ==
    /\ [](TalliesMatchReceipts)
    /\ [][ReceiptIffCounted]_vars

\* A proposal with a vote for and a vote against.
C8_Witness ==
    \E id \in DOMAIN governance.proposals :
        /\ governance.proposals[id].votes_for >= 1
        /\ governance.proposals[id].votes_against >= 1
        /\ Cardinality(Receipts(id, TRUE)) >= 1
        /\ Cardinality(Receipts(id, FALSE)) >= 1

\* A repeated vote by a voter who is still a member fails with AlreadyVoted,
\* nothing changed, whatever the proposal's status and the ledger.
RepeatedVoteFails ==
    \A a \in Addr, id \in DOMAIN governance.proposals, vote_for \in BOOLEAN :
        IsMember(a) /\ HasReceipt(id, a) =>
            FailsWith(governance, Governance_vote(governance, ledger, a, id, vote_for, TRUE),
                      "AlreadyVoted")

HasApproved(id, a) == Contains(treasury.transactions[id].approvals, a)

\* C9 as stated: a repeated vote fails with AlreadyVoted and a repeated approve
\* (by a signer, on ANY transaction the signer has approved) fails with
\* AlreadyApproved, nothing changed.
C9_AsStated ==
    /\ RepeatedVoteFails
    /\ \A a \in Addr, id \in DOMAIN treasury.transactions :
        IsSigner(a) /\ HasApproved(id, a) =>
            FailsWith(treasury, Treasury_approve(treasury, a, id, TRUE), "AlreadyApproved")

\* C9 amended: a repeated vote by the same member on the same proposal fails with
\* AlreadyVoted; a repeated approve by the same signer on the same transaction
\* fails with AlreadyApproved when the transaction is NOT YET EXECUTED and with
\* AlreadyExecuted when it is; in every case the tallies, receipts and approvals
\* are left as they were.
C9_RepeatIsAnError ==
    /\ RepeatedVoteFails
    /\ \A a \in Addr, id \in DOMAIN treasury.transactions :
        IsSigner(a) /\ HasApproved(id, a) =>
            FailsWith(treasury, Treasury_approve(treasury, a, id, TRUE),
                      IF Executed(id) THEN "AlreadyExecuted" ELSE "AlreadyApproved")

\* A signer has approved both a pending transaction and an executed one.
C9_Witness ==
    \E a \in Addr, id \in DOMAIN treasury.transactions, id2 \in DOMAIN treasury.transactions :
        /\ IsSigner(a)
        /\ Pending(id) /\ HasApproved(id, a)
        /\ Executed(id2) /\ HasApproved(id2, a)

\* floor(|Members| * QuorumPercent / 100), over the integers.
QuorumThreshold == (Len(governance.members) * governance.quorum_percent) \div 100

RuleStatus(proposal, q) ==
    IF proposal.total_votes < q THEN "Expired"
    ELSE IF proposal.votes_for > proposal.votes_against THEN "Passed"
    ELSE "Rejected"

\* C10 as stated: every finalize call that succeeds sets and returns the status of
\* the rule with q = floor(|Members| * QuorumPercent / 100) of the state it is
\* called in.
C10_FinalizeFollowsRule ==
    \A caller \in Addr, id \in DOMAIN governance.proposals, wrap \in BOOLEAN :
        LET r == Governance_finalize(governance, ledger, caller, id, TRUE, wrap) IN
        r.result = "Ok" =>
            /\ r.ret = RuleStatus(governance.proposals[id], QuorumThreshold)
            /\ r.store.proposals[id].status = r.ret

VoteEnabled(id) ==
    \E a \in Addr, vote_for \in BOOLEAN, auth \in BOOLEAN :
        Governance_vote(governance, ledger, a, id, vote_for, auth).result = "Ok"

FinalizeEnabled(id) ==
    \E a \in Addr, auth \in BOOLEAN, wrap \in BOOLEAN :
        Governance_finalize(governance, ledger, a, id, auth, wrap).result = "Ok"

Tallies(proposal) ==
    <<proposal.votes_for, proposal.votes_against, proposal.total_votes>>

\* The tallies of a proposal that is not Active are the same in the next state.
FinalizedTalliesFrozen ==
    \A id \in DOMAIN governance.proposals :
        StatusOf(id) # "Active" =>
            Tallies(governance'.proposals[id]) = Tallies(governance.proposals[id])

\* For an Active proposal: vote succeeds only at ledger <= ends_at, finalize only
\* at ledger > ends_at, never both at one ledger value; finalize (by an
\* authenticated member) at ledger <= ends_at fails with VotingStillActive.
VoteAndFinalizeWindows ==
    \A id \in DOMAIN governance.proposals :
        StatusOf(id) = "Active" =>
            /\ VoteEnabled(id) => ledger <= governance.proposals[id].ends_at
            /\ FinalizeEnabled(id) => ledger > governance.proposals[id].ends_at
            /\ ~(VoteEnabled(id) /\ FinalizeEnabled(id))
            /\ \A a \in Addr, wrap \in BOOLEAN :
                IsMember(a) /\ ledger <= governance.proposals[id].ends_at =>
                    FailsWith(governance,
                              Governance_finalize(governance, ledger, a, id, TRUE, wrap),
                              "VotingStillActive")

----------------------------------------------------------------------------
(* Identifier counters *)

\* The stored entities are numbered 1..counter, in order.
CountersMatchEntities ==
    /\ governance.proposal_counter = Len(governance.proposals)
    /\ \A i \in DOMAIN governance.proposals : governance.proposals[i].id = i
    /\ treasury.tx_counter = Len(treasury.transactions)
    /\ \A i \in DOMAIN treasury.transactions : treasury.transactions[i].id = i

\* Every create_proposal / propose_withdrawal call: a successful one returns
\* counter + 1 and stores it as the counter, a failed one leaves the counter (and
\* everything else) as it was.
CreationAdvancesByOne ==
    /\ \A proposer \in Addr, text \in ProposalTexts, kind \in ProposalKinds, auth \in BOOLEAN :
        LET r == Governance_create_proposal(governance, ledger, proposer, text[1], text[2],
                                            kind[1], text[3], kind[2], auth)
        IN IF r.result = "Ok"
           THEN /\ r.ret = governance.proposal_counter + 1
                /\ Commit(governance, r).proposal_counter = r.ret
                /\ Len(Commit(governance, r).proposals) = r.ret
           ELSE Commit(governance, r) = governance
    /\ \A proposer \in Addr, amount \in {0, 1, 3}, auth \in BOOLEAN :
        LET r == Treasury_propose_withdrawal(treasury, proposer, Recipient, amount, Memo, auth)
        IN IF r.result = "Ok"
           THEN /\ r.ret = treasury.tx_counter + 1
                /\ Commit(treasury, r).tx_counter = r.ret
                /\ Len(Commit(treasury, r).transactions) = r.ret
           ELSE Commit(treasury, r) = treasury

\* A counter never decreases and moves by at most one in a step; the entities
\* already stored keep their ids.
CountersStepByOne ==
    /\ governance'.proposal_counter \in
           {governance.proposal_counter, governance.proposal_counter + 1}
    /\ treasury'.tx_counter \in {treasury.tx_counter, treasury.tx_counter + 1}
    /\ \A i \in DOMAIN governance.proposals :
           i \in DOMAIN governance'.proposals /\ governance'.proposals[i].id = i
    /\ \A i \in DOMAIN treasury.transactions :
           i \in DOMAIN treasury'.transactions /\ treasury'.transactions[i].id = i

----------------------------------------------------------------------------
(* Access Control claims *)

HasRole(a) == a \in DOMAIN access.roles

RoleOf(a) == access.roles[a].role

Holders(role) == {a \in DOMAIN access.roles : access.roles[a].role = role}

SumRoleCount ==
    access.role_count["Owner"] + access.role_count["Admin"] + access.role_count["Member"]
        + access.role_count["Viewer"]

\* C13 as stated: once initialized, RoleCount[Owner] = 1.
C13_OwnerCountIsOne ==
    access.initialized => access.role_count["Owner"] = 1

\* C14 as stated: once initialized, the RoleCounts add up to |AllMembers| and each
\* RoleCount[r] is the number of addresses whose assignment has role r.
C14_CountsMatchAssignments ==
    access.initialized =>
        /\ SumRoleCount = Len(access.all_members)
        /\ \A role \in Roles : access.role_count[role] = Cardinality(Holders(role))

\* C15 as stated: once initialized, an address has a stored assignment iff it
\* occurs in AllMembers, and AllMembers holds no address twice.
C15_AssignmentsAreMembers ==
    access.initialized =>
        /\ \A a \in Addr : HasRole(a) <=> Contains(access.all_members, a)
        /\ NoDuplicates(access.all_members)

\* C16 as stated: once initialized, the address in the Owner slot has an
\* assignment with role Owner.
C16_OwnerSlotHasOwnerRole ==
    access.initialized => HasRole(access.owner) /\ RoleOf(access.owner) = "Owner"

\* C17 as stated: assign_role(assignor, target, Owner) fails with InvalidRole for
\* every assignor and target, nothing changed.
C17_OwnerGrantRejected ==
    access.initialized =>
        \A assignor \in Addr, target \in Addr :
            FailsWith(access, Access_assign_role(access, assignor, target, "Owner", TRUE),
                      "InvalidRole")

\* C18: assign_role grants Admin only to an assignor whose role is Owner, Member or
\* Viewer only to one whose role is Owner or Admin; a lower role gets
\* InsufficientPrivilege, no role gets RoleNotFound, and a failing call changes
\* nothing.
C18_AssignAuthority ==
    access.initialized =>
        \A assignor \in Addr, target \in Addr, role \in Roles \ {"Owner"} :
            LET r == Access_assign_role(access, assignor, target, role, TRUE)
                allowed == IF role = "Admin" THEN {"Owner"} ELSE {"Owner", "Admin"}
            IN /\ r.result = "Ok" => HasRole(assignor) /\ RoleOf(assignor) \in allowed
               /\ HasRole(assignor) /\ RoleOf(assignor) \notin allowed =>
                      r.result = "InsufficientPrivilege"
               /\ ~HasRole(assignor) => r.result = "RoleNotFound"
               /\ r.result # "Ok" => Commit(access, r) = access

\* An Owner, an Admin and a Member: the Admin's grant of Admin (to itself or to
\* the Member) and the Member's grant of Viewer are refused.
C18_Witness ==
    \E o \in Addr, a \in Addr, m \in Addr :
        /\ HasRole(o) /\ RoleOf(o) = "Owner"
        /\ HasRole(a) /\ RoleOf(a) = "Admin"
        /\ HasRole(m) /\ RoleOf(m) = "Member"
        /\ Access_assign_role(access, a, a, "Admin", TRUE).result = "InsufficientPrivilege"
        /\ Access_assign_role(access, a, m, "Admin", TRUE).result = "InsufficientPrivilege"
        /\ Access_assign_role(access, m, m, "Viewer", TRUE).result = "InsufficientPrivilege"
        /\ Access_assign_role(access, a, m, "Viewer", TRUE).result = "Ok"

\* Every revoke_role call: it succeeds only under the authority rule, the two
\* refusals carry their error, and a successful call removes the target's
\* assignment and its AllMembers entry, the rest in order.
RevokeAuthority ==
    access.initialized =>
        \A revoker \in Addr, target \in Addr :
            LET r == Access_revoke_role(access, revoker, target, TRUE)
                managing == HasRole(revoker) /\ RoleOf(revoker) \in {"Owner", "Admin"}
            IN /\ r.result = "Ok" =>
                      /\ managing
                      /\ HasRole(target) /\ RoleOf(target) # "Owner"
                      /\ RoleOf(target) # "Admin" \/ RoleOf(revoker) = "Owner"
                      /\ target \notin DOMAIN r.store.roles
                      /\ \A a \in (DOMAIN access.roles) \ {target} :
                             a \in DOMAIN r.store.roles /\ r.store.roles[a] = access.roles[a]
                      /\ r.store.all_members =
                             SelectSeq(access.all_members, LAMBDA m : m # target)
               /\ managing /\ HasRole(target) /\ RoleOf(target) = "Owner" =>
                      FailsWith(access, r, "CannotRemoveOwner")
               /\ managing /\ RoleOf(revoker) = "Admin"
                           /\ HasRole(target) /\ RoleOf(target) = "Admin" =>
                      FailsWith(access, r, "InsufficientPrivilege")

\* An assignment that disappears in a step takes its AllMembers entry with it.
RevokedLeavesInOrder ==
    \A a \in DOMAIN access.roles :
        a \notin DOMAIN access'.roles =>
            access'.all_members = SelectSeq(access.all_members, LAMBDA m : m # a)

\* C19: revoke_role succeeds only if the revoker is Owner or Admin, the target is
\* not an Owner, and an Admin target has an Owner revoker; an Owner target yields
\* CannotRemoveOwner, an Admin revoking an Admin InsufficientPrivilege; on success
\* the assignment and the AllMembers entry are removed, order preserved.
C19_RevokeAuthority ==
    /\ [](RevokeAuthority)
    /\ [][RevokedLeavesInOrder]_vars

\* An Owner and two Admins, the Owner not first in AllMembers (the first holder
\* has been revoked): each Admin's revoke of the other is refused.
C19_Witness ==
    \E o \in Addr, a \in Addr, b \in Addr :
        /\ a # b
        /\ HasRole(o) /\ RoleOf(o) = "Owner"
        /\ HasRole(a) /\ RoleOf(a) = "Admin"
        /\ HasRole(b) /\ RoleOf(b) = "Admin"
        /\ Len(access.all_members) = 3

\* C20 as stated: a successful assign_role on a target that holds r_old replaces
\* the assignment, leaves AllMembers alone, and moves RoleCount[r_old] down and
\* RoleCount[r_new] up by one: no RoleCount changes when r_new = r_old.
C20_ReassignMovesCounts ==
    access.initialized =>
        \A assignor \in Addr, target \in Addr, role \in Roles :
            LET r == Access_assign_role(access, assignor, target, role, TRUE) IN
            r.result = "Ok" /\ HasRole(target) =>
                LET old == RoleOf(target) IN
                /\ r.store.roles[target].role = role
                /\ r.store.all_members = access.all_members
                /\ \A x \in Roles :
                       r.store.role_count[x] =
                           access.role_count[x] + (IF x = role THEN 1 ELSE 0)
                                                - (IF x = old THEN 1 ELSE 0)

Occurrences(v, a) == Cardinality({i \in 1..Len(v) : v[i] = a})

\* C21 as stated: transfer_ownership(curr, new) succeeds only when curr is the
\* address in the Owner slot, any other curr gets Unauthorized with nothing
\* changed; after a successful call the Owner slot holds new, new's assignment
\* has role Owner, curr's assignment has role Admin, new occurs in AllMembers
\* exactly once and RoleCount[Owner] is 1.
C21_TransferOwnership ==
    access.initialized =>
        \A current_owner \in Addr, new_owner \in Addr :
            LET r == Access_transfer_ownership(access, current_owner, new_owner, TRUE) IN
            /\ r.result = "Ok" => current_owner = access.owner
            /\ current_owner # access.owner => FailsWith(access, r, "Unauthorized")
            /\ r.result = "Ok" =>
                   /\ r.store.owner = new_owner
                   /\ r.store.roles[new_owner].role = "Owner"
                   /\ r.store.roles[current_owner].role = "Admin"
                   /\ Occurrences(r.store.all_members, new_owner) = 1
                   /\ r.store.role_count["Owner"] = 1

----------------------------------------------------------------------------
(* Governance claims: quorum and member list *)

\* C22 as stated: once initialized, QuorumPercent is within 1..100; initialize
\* and set_quorum reject a value outside that range.
C22_QuorumInRange ==
    governance.initialized =>
        /\ governance.quorum_percent \in 1..100
        /\ \A new_quorum \in (0..U32Max) \ (1..100) :
               Governance_set_quorum(governance, governance.admin, new_quorum, TRUE).result
                   # "Ok"

\* C23 as stated: once initialized, Members holds no address twice.
C23_MembersNoDuplicates ==
    governance.initialized => NoDuplicates(governance.members)

----------------------------------------------------------------------------
(* Treasury claims: signer list *)

\* C24 as stated: once initialized, Signers holds no address twice.
C24_SignersNoDuplicates ==
    treasury.initialized => NoDuplicates(treasury.signers)

----------------------------------------------------------------------------
(* Governance claims: execution *)

\* Every execute_proposal call: it succeeds exactly for a Passed proposal and an
\* executor that is the admin or the proposer; the status is checked first, so
\* any other status yields ProposalRejected for every executor, and a Passed
\* proposal yields Unauthorized for any other executor.
ExecuteAuthority ==
    governance.initialized =>
        \A executor \in Addr, id \in DOMAIN governance.proposals :
            LET r == Governance_execute_proposal(governance, executor, id, TRUE)
                proposal == governance.proposals[id]
                eligible == executor = governance.admin \/ executor = proposal.proposer
            IN /\ r.result = "Ok" <=> proposal.status = "Passed" /\ eligible
               /\ proposal.status # "Passed" => FailsWith(governance, r, "ProposalRejected")
               /\ proposal.status = "Passed" /\ ~eligible =>
                      FailsWith(governance, r, "Unauthorized")
               /\ r.result = "Ok" =>
                      /\ r.store.proposals[id].status = "Executed"
                      /\ \A again \in Addr :
                             FailsWith(r.store,
                                       Governance_execute_proposal(r.store, again, id, TRUE),
                                       "ProposalRejected")

\* Members changes, once initialized, only in a step that takes one proposal from
\* Passed to Executed.
MembersChangeOnExecution ==
    governance.initialized /\ governance'.members # governance.members =>
        \E id \in DOMAIN governance.proposals :
            /\ StatusOf(id) = "Passed"
            /\ governance'.proposals[id].status = "Executed"

\* C25: execute_proposal succeeds only for a Passed proposal and an executor that
\* is the stored Admin or the proposer; a proposal in any other status gets
\* ProposalRejected and any other executor of a Passed proposal gets
\* Unauthorized, with Members and the proposal unchanged; on success the status
\* becomes Executed, so the member mutation is applied at most once.
C25_ExecuteOncePassed ==
    /\ [](ExecuteAuthority)
    /\ [][MembersChangeOnExecution]_vars

\* A proposal executed by its proposer, who is not the admin, with the member
\* list changed by it.
C25_Witness ==
    \E id \in DOMAIN governance.proposals :
        /\ StatusOf(id) = "Executed"
        /\ governance.proposals[id].proposer # governance.admin
        /\ governance.proposals[id].action = "RemoveMember"
        /\ ~IsMember(governance.proposals[id].target)
        /\ governance.members = <<"a1">>

\* C26: executing a Passed AddMember proposal leaves Members unchanged when the
\* target is already a member and appends the target once when it is absent, so
\* a second AddMember of the same address changes nothing; executing a Passed
\* RemoveMember proposal leaves Members unchanged when the target is not a member
\* and otherwise removes the target, the others keeping their order; the call
\* succeeds and the proposal becomes Executed in each case.
C26_MemberMutationIdempotent ==
    governance.initialized =>
        \A id \in DOMAIN governance.proposals :
            LET proposal == governance.proposals[id]
                target == proposal.target
                r == Governance_execute_proposal(governance, governance.admin, id, TRUE)
            IN proposal.status = "Passed" /\ proposal.action \in {"AddMember", "RemoveMember"} =>
                   /\ r.result = "Ok"
                   /\ r.store.proposals[id].status = "Executed"
                   /\ proposal.action = "AddMember" =>
                          /\ r.store.members = IF IsMember(target) THEN governance.members
                                               ELSE Append(governance.members, target)
                          /\ Governance_internal_add_member(r.store.members, target)
                                 = r.store.members
                   /\ proposal.action = "RemoveMember" =>
                          r.store.members = IF IsMember(target) THEN
                                                SelectSeq(governance.members,
                                                          LAMBDA m : m # target)
                                            ELSE governance.members

\* An executed AddMember proposal whose target was a member from the start: the
\* list is the one given to initialize.
C26_Witness ==
    \E id \in DOMAIN governance.proposals :
        /\ StatusOf(id) = "Executed"
        /\ governance.proposals[id].action = "AddMember"
        /\ governance.proposals[id].target = "a1"
        /\ governance.members = <<"a1", "a2">>

----------------------------------------------------------------------------
(* Access Control claims: round trip *)

\* What the read-only entry points report of a storage: AllMembers, the
\* RoleCounts and the four membership predicates.
Observed(s) ==
    [all_members |-> s.all_members,
     role_count |-> s.role_count,
     has_permission |-> [a \in Addr, role \in Roles |-> Access_has_permission(s, a, role)],
     is_owner |-> [a \in Addr |-> Access_is_owner(s, a)],
     is_admin_or_above |-> [a \in Addr |-> Access_is_admin_or_above(s, a)],
     is_member_or_above |-> [a \in Addr |-> Access_is_member_or_above(s, a)]]

\* assign_role(owner, a, Admin) and then revoke_role(owner, a), both successful,
\* give back what was observed before.
RoundTripRestores(owner, a) ==
    LET assigned == Access_assign_role(access, owner, a, "Admin", TRUE)
        revoked == Access_revoke_role(assigned.store, owner, a, TRUE)
    IN assigned.result = "Ok" /\ revoked.result = "Ok" =>
           Observed(revoked.store) = Observed(access)

\* C27 as stated: for every address a and every state in which both calls
\* succeed, assign_role(owner, a, Admin) followed by revoke_role(owner, a)
\* restores AllMembers, RoleCount and the membership predicates.
C27_AsStated ==
    access.initialized => \A owner \in Addr, a \in Addr : RoundTripRestores(owner, a)

\* C27: the round trip restores AllMembers, RoleCount and the membership
\* predicates for every address a that holds no role before it.
C27_RoundTripOfNewAddress ==
    access.initialized =>
        \A owner \in Addr, a \in Addr : ~HasRole(a) => RoundTripRestores(owner, a)

\* An Owner, an address with no role, for which both calls succeed, and a Member,
\* for which they succeed too and which is left without a role.
C27_Witness ==
    \E owner \in Addr, a \in Addr, m \in Addr :
        /\ ~HasRole(a)
        /\ HasRole(m) /\ RoleOf(m) = "Member"
        /\ \A target \in {a, m} :
               LET assigned == Access_assign_role(access, owner, target, "Admin", TRUE) IN
               /\ assigned.result = "Ok"
               /\ Access_revoke_role(assigned.store, owner, target, TRUE).result = "Ok"

----------------------------------------------------------------------------
(* Treasury claims: signer removal and funds *)

\* C28 as stated: remove_signer succeeds only when |Signers| > Threshold and the
\* address is a signer; |Signers| <= Threshold yields ThresholdBreach whether or
\* not the address is a signer, an absent address with the size check passed
\* yields NotASigner; a successful call shortens Signers by exactly one entry,
\* keeps the order of the rest and leaves |Signers| >= Threshold.
C28_RemoveSigner ==
    treasury.initialized =>
        \A signer \in Addr :
            LET r == Treasury_remove_signer(treasury, treasury.admin, signer, TRUE)
                size == Len(treasury.signers)
            IN /\ r.result = "Ok" => size > treasury.threshold /\ IsSigner(signer)
               /\ size <= treasury.threshold => FailsWith(treasury, r, "ThresholdBreach")
               /\ size > treasury.threshold /\ ~IsSigner(signer) =>
                      FailsWith(treasury, r, "NotASigner")
               /\ r.result = "Ok" =>
                      /\ Len(r.store.signers) = size - 1
                      /\ r.store.signers = SelectSeq(treasury.signers, LAMBDA x : x # signer)
                      /\ Len(r.store.signers) >= r.store.threshold

\* A transaction that execute would pay but for the balance: not executed, its
\* approvals at the threshold, its amount above the balance.
Unfunded(id) ==
    /\ Pending(id)
    /\ ~BelowThreshold(id)
    /\ treasury.transactions[id].amount > treasury.balance

\* C29: propose_withdrawal requires Balance >= amount and leaves Balance as it
\* is, so it reserves nothing; execute of a fully approved transaction whose
\* amount exceeds Balance fails with InsufficientFunds, Balance and the
\* transaction unchanged; after a deposit that brings Balance to the amount the
\* same execute succeeds.
C29_NoReservation ==
    treasury.initialized =>
        /\ \A proposer \in Addr, amount \in I128Min..I128Max :
               LET r == Treasury_propose_withdrawal(treasury, proposer, Recipient, amount,
                                                    Memo, TRUE)
               IN /\ r.result = "Ok" =>
                         treasury.balance >= amount /\ r.store.balance = treasury.balance
                  /\ IsSigner(proposer) /\ amount > 0 /\ treasury.balance < amount =>
                         FailsWith(treasury, r, "InsufficientFunds")
        /\ \A executor \in Addr, id \in DOMAIN treasury.transactions :
               IsSigner(executor) /\ Unfunded(id) =>
                   /\ FailsWith(treasury, Treasury_execute(treasury, executor, id, TRUE),
                                "InsufficientFunds")
                   /\ \A from \in Addr, amount \in 1..I128Max :
                          LET paid == Treasury_deposit(treasury, from, amount, TRUE, FALSE)
                              r == Treasury_execute(paid.store, executor, id, TRUE)
                          IN paid.result = "Ok"
                             /\ paid.store.balance >= treasury.transactions[id].amount =>
                                 /\ r.result = "Ok"
                                 /\ r.store.transactions[id].executed
                                 /\ r.store.balance = paid.store.balance
                                                          - treasury.transactions[id].amount

\* Two transactions proposed against the same balance: one has been executed,
\* the other is fully approved and its amount exceeds what is left, and a
\* deposit of the difference is possible.
C29_Witness ==
    \E i \in DOMAIN treasury.transactions, j \in DOMAIN treasury.transactions :
        /\ Executed(i)
        /\ Unfunded(j)
        /\ treasury.balance >= 0
        /\ \E executor \in Addr : IsSigner(executor)
        /\ \E amount \in 1..I128Max :
               LET paid == Treasury_deposit(treasury, "a1", amount, TRUE, FALSE) IN
               paid.result = "Ok" /\ paid.store.balance >= treasury.transactions[j].amount

\* The approvals of a transaction that current signers gave.
ApprovalsBySigners(id) ==
    SelectSeq(treasury.transactions[id].approvals, LAMBDA a : IsSigner(a))

\* C30: remove_signer leaves every transaction's approvals as they are, and
\* execute counts them all, so a transaction that meets the threshold with the
\* approval of the removed address is still executed; an address that is not in
\* Signers gets NotASigner from propose_withdrawal, approve and execute.
C30_RemovedApprovalCounts ==
    treasury.initialized =>
        /\ \A signer \in Addr :
               LET removed == Treasury_remove_signer(treasury, treasury.admin, signer, TRUE) IN
               removed.result = "Ok" =>
                   /\ removed.store.transactions = treasury.transactions
                   /\ \A executor \in Addr, id \in DOMAIN treasury.transactions :
                          LET r == Treasury_execute(removed.store, executor, id, TRUE) IN
                          /\ executor = signer => r.result = "NotASigner"
                          /\ Contains(removed.store.signers, executor) =>
                                 r.result = Treasury_execute(treasury, executor, id, TRUE).result
        /\ \A executor \in Addr, id \in DOMAIN treasury.transactions :
               IsSigner(executor) /\ Pending(id) /\ ~BelowThreshold(id)
                   /\ treasury.balance >= treasury.transactions[id].amount =>
                   Treasury_execute(treasury, executor, id, TRUE).result = "Ok"
        /\ \A a \in Addr, id \in DOMAIN treasury.transactions, amount \in I128Min..I128Max :
               ~IsSigner(a) =>
                   /\ FailsWith(treasury,
                                Treasury_propose_withdrawal(treasury, a, Recipient, amount,
                                                            Memo, TRUE),
                                "NotASigner")
                   /\ FailsWith(treasury, Treasury_approve(treasury, a, id, TRUE), "NotASigner")
                   /\ FailsWith(treasury, Treasury_execute(treasury, a, id, TRUE), "NotASigner")

\* A pending transaction that reaches the threshold only with the approval of an
\* address removed from Signers, and that a remaining signer can execute.
C30_Witness ==
    \E id \in DOMAIN treasury.transactions, a \in Addr, executor \in Addr :
        /\ Pending(id)
        /\ ~IsSigner(a)
        /\ Contains(treasury.transactions[id].approvals, a)
        /\ Len(ApprovalsBySigners(id)) < treasury.threshold
        /\ Treasury_execute(treasury, executor, id, TRUE).result = "Ok"
        /\ Treasury_execute(treasury, a, id, TRUE).result = "NotASigner"

----------------------------------------------------------------------------
(* Claims about all three contracts: order of checks, failed calls, *)
(* initialization                                                    *)

\* C31 as stated: the checks run in the order initialized, eligibility,
\* require_auth, business validation.  An unauthenticated deposit of an invalid
\* amount is stopped by require_auth; an unauthenticated execute_proposal by an
\* address that is neither admin nor proposer returns Unauthorized and one by an
\* eligible address on a proposal that is not Passed is stopped by require_auth;
\* an unauthenticated assign_role by an address without the authority returns
\* the eligibility error.
C31_CheckOrder ==
    /\ treasury.initialized =>
           \A from \in Addr, amount \in I128Min..0 :
               Treasury_deposit(treasury, from, amount, FALSE, FALSE).result = "Trap"
    /\ governance.initialized =>
           \A executor \in Addr, id \in DOMAIN governance.proposals :
               LET r == Governance_execute_proposal(governance, executor, id, FALSE) IN
               IF Governance_may_execute(governance, governance.proposals[id], executor)
               THEN r.result = "Trap"
               ELSE r.result = "Unauthorized"
    /\ access.initialized =>
           \A assignor \in Addr, target \in Addr, role \in Roles \ {"Owner"} :
               LET r == Access_assign_role(access, assignor, target, role, FALSE) IN
               IF ~HasRole(assignor) THEN r.result = "RoleNotFound"
               ELSE IF Access_may_assign(RoleOf(assignor), role) # "Ok"
               THEN r.result = "InsufficientPrivilege"
               ELSE r.result = "Trap"

\* P holds of every call of a Treasury entry point on storage s: every caller,
\* with and without its authorization, amounts over the whole i128 range, stored
\* ids and one that is not stored.
EveryTreasuryInitialize(s, P(_)) ==
    \A admin \in Addr, threshold \in 0..(MaxSigners + 1),
       signers \in {<<>>, <<"a1">>, <<"a2", "a3">>}, auth \in BOOLEAN :
        P(Treasury_initialize(s, admin, threshold, signers, auth))

EveryTreasuryGatedCall(s, P(_)) ==
    LET ids == 1..(Len(s.transactions) + 1) IN
    /\ \A a \in Addr, amount \in I128Min..I128Max, auth \in BOOLEAN :
        /\ \A wrap \in BOOLEAN : P(Treasury_deposit(s, a, amount, auth, wrap))
        /\ P(Treasury_propose_withdrawal(s, a, Recipient, amount, Memo, auth))
    /\ \A a \in Addr, id \in ids, auth \in BOOLEAN :
        /\ P(Treasury_approve(s, a, id, auth))
        /\ P(Treasury_execute(s, a, id, auth))
    /\ \A a \in Addr, b \in Addr, auth \in BOOLEAN :
        /\ P(Treasury_add_signer(s, a, b, auth))
        /\ P(Treasury_remove_signer(s, a, b, auth))
        /\ P(Treasury_transfer_admin(s, a, b, auth))
    /\ \A a \in Addr, n \in 0..(MaxSigners + 1), auth \in BOOLEAN :
        P(Treasury_set_threshold(s, a, n, auth))

\* P holds of every call of a Governance entry point on storage s at ledger
\* sequence now.
EveryGovernanceInitialize(s, P(_)) ==
    \A admin \in Addr, members \in {<<>>, <<"a1">>, <<"a2", "a3">>},
       quorum_percent \in {0, 50, 101}, voting_period \in {1, U32Max}, auth \in BOOLEAN :
        P(Governance_initialize(s, admin, members, quorum_percent, voting_period, auth))

EveryGovernanceGatedCall(s, now, P(_)) ==
    LET ids == 1..(Len(s.proposals) + 1) IN
    /\ \A a \in Addr, text \in ProposalTexts, kind \in ProposalKinds, auth \in BOOLEAN :
        P(Governance_create_proposal(s, now, a, text[1], text[2], kind[1], text[3], kind[2],
                                     auth))
    /\ \A a \in Addr, id \in ids, auth \in BOOLEAN :
        /\ \A vote_for \in BOOLEAN : P(Governance_vote(s, now, a, id, vote_for, auth))
        /\ \A wrap \in BOOLEAN : P(Governance_finalize(s, now, a, id, auth, wrap))
        /\ P(Governance_execute_proposal(s, a, id, auth))
    /\ \A a \in Addr, b \in Addr, auth \in BOOLEAN :
        P(Governance_transfer_admin(s, a, b, auth))
    /\ \A a \in Addr, q \in {0, 50, 101}, auth \in BOOLEAN :
        P(Governance_set_quorum(s, a, q, auth))

\* P holds of every call of an Access Control entry point on storage s.
EveryAccessInitialize(s, P(_)) ==
    \A owner \in Addr, auth \in BOOLEAN : P(Access_initialize(s, owner, auth))

EveryAccessGatedCall(s, P(_)) ==
    \A a \in Addr, b \in Addr, auth \in BOOLEAN :
        /\ \A role \in Roles : P(Access_assign_role(s, a, b, role, auth))
        /\ P(Access_revoke_role(s, a, b, auth))
        /\ P(Access_transfer_ownership(s, a, b, auth))

C33_InitializeOnce ==
    /\ contract = "treasury" =>
           LET Refused(r) == FailsWith(treasury, r, "AlreadyInitialized")
               Closed(r) == FailsWith(treasury, r, "NotInitialized")
           IN IF treasury.initialized THEN EveryTreasuryInitialize(treasury, Refused)
              ELSE EveryTreasuryGatedCall(treasury, Closed)
    /\ contract = "governance" =>
           LET Refused(r) == FailsWith(governance, r, "AlreadyInitialized")
               Closed(r) == FailsWith(governance, r, "NotInitialized")
           IN IF governance.initialized THEN EveryGovernanceInitialize(governance, Refused)
              ELSE EveryGovernanceGatedCall(governance, ledger, Closed)
    /\ contract = "access" =>
           LET Refused(r) == FailsWith(access, r, "AlreadyInitialized")
               Closed(r) == FailsWith(access, r, "NotInitialized")
           IN IF access.initialized THEN EveryAccessInitialize(access, Refused)
              ELSE EveryAccessGatedCall(access, Closed)

\* A treasury in use, with a transaction stored: an initialize call that would
\* be valid on a fresh contract is refused.
C33_Witness ==
    /\ treasury.initialized
    /\ treasury.tx_counter > 0
    /\ Treasury_initialize(TreasuryEmpty, "a2", 1, <<"a2">>, TRUE).result = "Ok"
    /\ Treasury_initialize(treasury, "a2", 1, <<"a2">>, TRUE).result = "AlreadyInitialized"

----------------------------------------------------------------------------
(* Governance claims: creation *)

\* C34: every stored proposal has ends_at = created_at + VotingPeriod, exact and
\* within u32, so created_at <= ends_at; a successful create_proposal sets
\* created_at to the ledger sequence of the call, and a call at a ledger
\* sequence with sequence + VotingPeriod above the u32 maximum fails with
\* Overflow and stores nothing.
C34_EndsAtExact ==
    governance.initialized =>
        /\ \A id \in DOMAIN governance.proposals :
               LET proposal == governance.proposals[id] IN
               /\ proposal.ends_at = proposal.created_at + governance.voting_period
               /\ proposal.ends_at <= U32Max
               /\ proposal.created_at <= proposal.ends_at
               /\ proposal.created_at <= ledger
        /\ \A proposer \in Addr, kind \in ProposalKinds :
               LET r == Governance_create_proposal(governance, ledger, proposer, "t", "d",
                                                   kind[1], 0, kind[2], TRUE)
                   id == governance.proposal_counter + 1
               IN /\ r.result = "Ok" =>
                         /\ r.store.proposals[id].created_at = ledger
                         /\ r.store.proposals[id].ends_at = ledger + governance.voting_period
                         /\ ledger + governance.voting_period <= U32Max
                  /\ IsMember(proposer) /\ ledger + governance.voting_period > U32Max
                         /\ (kind[1] = "General" \/ kind[2] # ZeroAddress) =>
                         FailsWith(governance, r, "Overflow")

\* A proposal whose ends_at is the u32 maximum, and a later ledger sequence at
\* which the same call overflows.
C34_Witness ==
    /\ \E id \in DOMAIN governance.proposals : governance.proposals[id].ends_at = U32Max
    /\ ledger > 0
    /\ \E proposer \in Addr :
           Governance_create_proposal(governance, ledger, proposer, "t", "d", "General", 0,
                                      ZeroAddress, TRUE).result = "Overflow"

\* C35: create_proposal succeeds only for a proposer in Members with a non-empty
\* title and description, amount >= 0 and, for AddMember and RemoveMember, a
\* target other than the zero address, and then stores an Active proposal with
\* zero tallies; a proposer that is not a member gets NotAMember, a member's call
\* with any of the other violations gets InvalidProposal, nothing stored; any
\* other action is accepted with the zero address as target.
C35_CreateValidation ==
    governance.initialized =>
        \A proposer \in Addr, text \in ProposalTexts,
           kind \in ProposalKinds \cup {<<"General", "a3">>, <<"RemoveMember", ZeroAddress>>} :
            LET r == Governance_create_proposal(governance, ledger, proposer, text[1], text[2],
                                                kind[1], text[3], kind[2], TRUE)
                valid == /\ text[1] # "" /\ text[2] # "" /\ text[3] >= 0
                         /\ kind[1] \in {"AddMember", "RemoveMember"} => kind[2] # ZeroAddress
                id == governance.proposal_counter + 1
            IN /\ r.result = "Ok" =>
                      /\ IsMember(proposer) /\ valid
                      /\ r.store.proposals =
                             Append(governance.proposals,
                                    [id |-> id, title |-> text[1], description |-> text[2],
                                     action |-> kind[1], proposer |-> proposer,
                                     votes_for |-> 0, votes_against |-> 0, total_votes |-> 0,
                                     status |-> "Active", created_at |-> ledger,
                                     ends_at |-> ledger + governance.voting_period,
                                     amount |-> text[3], target |-> kind[2]])
               /\ ~IsMember(proposer) => FailsWith(governance, r, "NotAMember")
               /\ IsMember(proposer) /\ ~valid => FailsWith(governance, r, "InvalidProposal")
               /\ IsMember(proposer) /\ valid => r.result \in {"Ok", "Overflow"}
               /\ r.result # "Ok" => Commit(governance, r).proposals = governance.proposals

\* A stored General proposal whose target is the zero address, still Active with
\* zero tallies, and an address outside Members whose call is refused.
C35_Witness ==
    /\ \E id \in DOMAIN governance.proposals :
           /\ governance.proposals[id].action = "General"
           /\ governance.proposals[id].target = ZeroAddress
           /\ governance.proposals[id].total_votes = 0
           /\ StatusOf(id) = "Active"
    /\ \E a \in Addr :
           /\ ~IsMember(a)
           /\ Governance_create_proposal(governance, ledger, a, "", "d", "General", 0,
                                         ZeroAddress, TRUE).result = "NotAMember"

----------------------------------------------------------------------------
(* Governance claims: closed proposals and receipts *)

\* The VoteReceipts of proposal id in storage s.
ReceiptsOf(s, id) ==
    LET keys == {k \in DOMAIN s.votes : k[1] = id} IN [k \in keys |-> s.votes[k]]

\* What storage t may hold of proposal id when t follows s: everything as in s
\* for a Rejected, Expired or Executed proposal, and for a Passed one everything
\* as in s but for a status that has become Executed.
ClosedKept(s, t, id) ==
    LET before == s.proposals[id]
        after == t.proposals[id]
    IN /\ before.status \in {"Rejected", "Expired", "Executed"} =>
              after = before /\ ReceiptsOf(t, id) = ReceiptsOf(s, id)
       /\ before.status = "Passed" =>
              /\ after = before \/ after = [before EXCEPT !.status = "Executed"]
              /\ ReceiptsOf(t, id) = ReceiptsOf(s, id)

\* Every successful call of a Governance entry point keeps the closed proposals.
ClosedKeptByCalls ==
    LET Keeps(r) ==
            r.result = "Ok" =>
                \A id \in DOMAIN governance.proposals : ClosedKept(governance, r.store, id)
    IN EveryGovernanceGatedCall(governance, ledger, Keeps)

\* Every step keeps the closed proposals.
ClosedKeptBySteps ==
    \A id \in DOMAIN governance.proposals :
        id \in DOMAIN governance'.proposals /\ ClosedKept(governance, governance', id)

\* C36: once a proposal is Rejected, Expired or Executed no operation changes any
\* of its fields or adds a VoteReceipt for it; once it is Passed only its status
\* changes, and only to Executed.
C36_ClosedProposalFrozen ==
    /\ [](ClosedKeptByCalls)
    /\ [][ClosedKeptBySteps]_vars

\* An Executed proposal with a receipt, at a ledger sequence where a member that
\* has not voted on it is refused.
C36_Witness ==
    \E id \in DOMAIN governance.proposals, a \in Addr, b \in Addr :
        /\ StatusOf(id) = "Executed"
        /\ HasReceipt(id, a)
        /\ IsMember(b) /\ ~HasReceipt(id, b)
        /\ Governance_vote(governance, ledger, b, id, TRUE, TRUE).result = "VotingClosed"
        /\ Governance_finalize(governance, ledger, b, id, TRUE, FALSE).result = "VotingClosed"

\* A receipt that appears in a step belongs to an address that is a member
\* before the step; a receipt that exists stays, with the vote it records, and
\* no tally of a proposal goes down.
ReceiptsByMembersAndKept ==
    /\ \A k \in (DOMAIN governance'.votes) \ (DOMAIN governance.votes) : IsMember(k[2])
    /\ \A k \in DOMAIN governance.votes :
           k \in DOMAIN governance'.votes /\ governance'.votes[k] = governance.votes[k]
    /\ \A id \in DOMAIN governance.proposals :
           /\ id \in DOMAIN governance'.proposals
           /\ Tallies(governance'.proposals[id]) = Tallies(governance.proposals[id])
                  \/ \E k \in (DOMAIN governance'.votes) \ (DOMAIN governance.votes) :
                         k[1] = id

\* An executed proposal changes no receipt and no tally, and finalize compares
\* total_votes with the quorum of the member list of the state it is called in.
RemovalKeepsVotes ==
    governance.initialized =>
        \A a \in Addr, id \in DOMAIN governance.proposals :
            LET executed == Governance_execute_proposal(governance, a, id, TRUE)
                finalized == Governance_finalize(governance, ledger, a, id, TRUE, FALSE)
            IN /\ executed.result = "Ok" =>
                      /\ executed.store.votes = governance.votes
                      /\ \A other \in DOMAIN governance.proposals :
                             Tallies(executed.store.proposals[other])
                                 = Tallies(governance.proposals[other])
               /\ finalized.result = "Ok" =>
                      finalized.store.proposals[id].status =
                          RuleStatus(governance.proposals[id], QuorumThreshold)

\* C37: a receipt is recorded only for an address that is in Members at that
\* moment; a receipt and its contribution to the tallies stay in every later
\* state, also after an executed RemoveMember has removed the voter; finalize
\* compares total_votes with the quorum of Members as it stands at the call.
C37_VotesOutliveMembership ==
    /\ [](RemovalKeepsVotes)
    /\ [][ReceiptsByMembersAndKept]_vars

\* A proposal finalized as Passed or Rejected on the single vote of an address
\* that an executed RemoveMember has removed: with the voter still in Members
\* the quorum would have been 2 and the proposal Expired.
C37_Witness ==
    \E id \in DOMAIN governance.proposals, removal \in DOMAIN governance.proposals :
        /\ governance.proposals[removal].status = "Executed"
        /\ ~IsMember("a2")
        /\ HasReceipt(id, "a2")
        /\ governance.proposals[id].total_votes = 1
        /\ StatusOf(id) \in {"Passed", "Rejected"}

\* An Active proposal whose voting period has ended.
Overdue(id) == StatusOf(id) = "Active" /\ ledger > governance.proposals[id].ends_at

FinalizeOpenToMembers ==
    governance.initialized /\ Len(governance.members) * governance.quorum_percent <= U32Max =>
        \A id \in DOMAIN governance.proposals, caller \in Addr :
            Overdue(id) =>
                LET r == Governance_finalize(governance, ledger, caller, id, TRUE, FALSE) IN
                /\ r.result = "Ok" <=> IsMember(caller)
                /\ ~IsMember(caller) => FailsWith(governance, r, "NotAMember")

\* Members becomes empty only in the step that executes a RemoveMember proposal.
EmptiedByRemoval ==
    governance.initialized /\ governance.members # <<>> /\ governance'.members = <<>> =>
        \E id \in DOMAIN governance.proposals :
            /\ StatusOf(id) = "Passed"
            /\ governance.proposals[id].action = "RemoveMember"
            /\ governance'.proposals[id].status = "Executed"

----------------------------------------------------------------------------
(* Treasury claims: stored transactions *)

\* What a stored transaction keeps for good.
Particulars(transaction) ==
    [id |-> transaction.id, to |-> transaction.to, amount |-> transaction.amount,
     memo |-> transaction.memo, proposer |-> transaction.proposer,
     created_at |-> transaction.created_at]

IsPrefix(v, w) == Len(v) <= Len(w) /\ SubSeq(w, 1, Len(v)) = v

\* Transaction t follows transaction u: same particulars, approvals extended at
\* the end.
Follows(t, u) ==
    /\ Particulars(t) = Particulars(u)
    /\ IsPrefix(u.approvals, t.approvals)

\* In every step each stored transaction follows itself, and a transaction that
\* appears has the proposer as its only approval.
TransactionsOnlyGrow ==
    /\ \A id \in DOMAIN treasury.transactions :
           /\ id \in DOMAIN treasury'.transactions
           /\ Follows(treasury'.transactions[id], treasury.transactions[id])
    /\ \A id \in (DOMAIN treasury'.transactions) \ (DOMAIN treasury.transactions) :
           treasury'.transactions[id].approvals = <<treasury'.transactions[id].proposer>>

\* Every successful call keeps the particulars and extends the approvals, by one
\* address at most, and a successful add_signer, remove_signer, set_threshold,
\* transfer_admin or deposit leaves the stored transactions as they are.
TransactionsKeptByCalls ==
    treasury.initialized =>
        \A a \in Addr :
            LET Grows(r) ==
                    r.result = "Ok" =>
                        \A id \in DOMAIN treasury.transactions :
                            /\ Follows(r.store.transactions[id], treasury.transactions[id])
                            /\ Len(r.store.transactions[id].approvals)
                                   <= Len(treasury.transactions[id].approvals) + 1
                Same(r) == r.result = "Ok" => r.store.transactions = treasury.transactions
            IN /\ \A id \in DOMAIN treasury.transactions :
                      /\ Grows(Treasury_approve(treasury, a, id, TRUE))
                      /\ Grows(Treasury_execute(treasury, a, id, TRUE))
               /\ \A amount \in 1..I128Max :
                      /\ Grows(Treasury_propose_withdrawal(treasury, a, Recipient, amount, Memo,
                                                           TRUE))
                      /\ \A wrap \in BOOLEAN :
                             Same(Treasury_deposit(treasury, a, amount, TRUE, wrap))
               /\ \A b \in Addr :
                      /\ Same(Treasury_add_signer(treasury, a, b, TRUE))
                      /\ Same(Treasury_remove_signer(treasury, a, b, TRUE))
                      /\ Same(Treasury_transfer_admin(treasury, a, b, TRUE))
               /\ \A n \in 1..(MaxSigners + 1) : Same(Treasury_set_threshold(treasury, a, n, TRUE))

\* C39: a stored transaction keeps its id, to, amount, memo, proposer and
\* created_at; its approvals start as [proposer] and only grow at the end; and
\* add_signer, remove_signer, set_threshold, transfer_admin and deposit leave
\* every stored transaction unchanged.
C39_TransactionsImmutable ==
    /\ [](TransactionsKeptByCalls)
    /\ [][TransactionsOnlyGrow]_vars

\* An executed transaction with a second approval after the proposer's, in a
\* treasury whose admin has changed and that has received a further deposit.
C39_Witness ==
    \E id \in DOMAIN treasury.transactions :
        LET transaction == treasury.transactions[id] IN
        /\ transaction.executed
        /\ Len(transaction.approvals) = 2
        /\ transaction.approvals[1] = transaction.proposer
        /\ treasury.admin # "a1"
        /\ treasury.balance > 0

\* C40: execute compares the approval count with the Threshold stored when it is
\* called: a transaction that is not executed, has at least that many approvals
\* and an amount within Balance is executed for every authenticated address in
\* Signers, whether or not it approved, and one with fewer approvals gets
\* Unauthorized; after set_threshold the new value decides; with Threshold 1 the
\* proposer executes its own proposal without a further approval.
C40_ThresholdAtExecute ==
    treasury.initialized =>
        /\ \A executor \in Addr, id \in DOMAIN treasury.transactions :
               IsSigner(executor) /\ Pending(id) =>
                   LET r == Treasury_execute(treasury, executor, id, TRUE) IN
                   /\ ~BelowThreshold(id)
                          /\ treasury.transactions[id].amount <= treasury.balance =>
                          r.result = "Ok" /\ r.store.transactions[id].executed
                   /\ BelowThreshold(id) => FailsWith(treasury, r, "Unauthorized")
        /\ \A new_threshold \in 0..(MaxSigners + 1) :
               LET set == Treasury_set_threshold(treasury, treasury.admin, new_threshold, TRUE)
               IN set.result = "Ok" =>
                      \A executor \in Addr, id \in DOMAIN treasury.transactions :
                          IsSigner(executor) /\ Pending(id) =>
                              (Treasury_execute(set.store, executor, id, TRUE).result = "Ok"
                                  <=> /\ Len(treasury.transactions[id].approvals) >= new_threshold
                                      /\ treasury.transactions[id].amount <= treasury.balance)
        /\ \A proposer \in Addr, amount \in 1..I128Max :
               LET proposed == Treasury_propose_withdrawal(treasury, proposer, Recipient, amount,
                                                           Memo, TRUE)
               IN proposed.result = "Ok" /\ treasury.threshold = 1 =>
                      Treasury_execute(proposed.store, proposer, proposed.ret, TRUE).result = "Ok"

\* A transaction executed on the approval of its proposer alone, under a
\* Threshold that has since been raised to 2, and a pending one that the raised
\* Threshold holds back.
C40_Witness ==
    \E i \in DOMAIN treasury.transactions, j \in DOMAIN treasury.transactions :
        /\ Executed(i)
        /\ treasury.transactions[i].approvals = <<treasury.transactions[i].proposer>>
        /\ treasury.threshold = 2
        /\ Pending(j) /\ BelowThreshold(j)
        /\ treasury.transactions[j].amount <= treasury.balance
        /\ \E executor \in Addr :
               Treasury_execute(treasury, executor, j, TRUE).result = "Unauthorized"

=============================================================================
